---- MODULE Spec2Model ----
(***************************************************************************)
(* Transaction layer of kaia (blockchain/types/tx_internal_data.go):       *)
(* intrinsic gas computation, fee-delegation fee splitting, the EIP-7702   *)
(* account-shape validation, the TxType methods, the static gas table and  *)
(* the transaction loop of StateProcessor.Process.                         *)
(*                                                                         *)
(* Every function of the source is an operator of the same name.  A call   *)
(* is a two-step behaviour: the initial state holds the arguments of one   *)
(* call (variable call, ret = NoRet) and the action named after the        *)
(* function stores what the function returns in ret.  Process, which       *)
(* loops, takes one step per iteration and keeps its locals in call.       *)
(*                                                                         *)
(* uint64 arithmetic is modelled at a width of UintBits bits: every        *)
(* uint64 addition and multiplication of the source is taken modulo        *)
(* 2^UintBits and math.MaxUint64 is 2^UintBits - 1.  The gas prices keep   *)
(* their protocol values.                                                  *)
(***************************************************************************)
EXTENDS Integers, Sequences, FiniteSets, TLC

VARIABLES call, ret, stateDB

vars == <<call, ret, stateDB>>

(***************************************************************************)
(* Bounds of the model.                                                    *)
(***************************************************************************)
UintBits == 17
MaxDataLen == 2
MaxAccessListLen == 2
MaxStorageKeys == 1
MaxAuthLen == 2
MaxFee == 120

(***************************************************************************)
(* uint64 (math.MaxUint64 and the wrapping + and * of Go).                 *)
(***************************************************************************)
UintMod == 2 ^ UintBits

MaxUint64 == UintMod - 1

AddU64(a, b) == (a + b) % UintMod

MulU64(a, b) == (a * b) % UintMod

(***************************************************************************)
(* params: the protocol gas prices used by the intrinsic gas engine.       *)
(***************************************************************************)
TxGas == 21000

TxGasContractCreation == 53000

TxDataGas == 100

TxDataZeroGas == 4

TxDataNonZeroGasFrontier == 68

TxDataNonZeroGasEIP2028 == 16

InitCodeWordGas == 2

TxAccessListAddressGas == 2400

TxAccessListStorageKeyGas == 1900

CallNewAccountGas == 25000

(***************************************************************************)
(* Errors and return values.                                               *)
(***************************************************************************)
ErrNil == "nil"

ErrGasUintOverflow == "gas uint64 overflow"

NoRet == [none |-> TRUE]

GasRet(gas, err) == [gas |-> gas, err |-> err]

(***************************************************************************)
(* params.Rules: the fork gates read by the intrinsic gas engine.          *)
(***************************************************************************)
Rules == [IsIstanbul : BOOLEAN, IsShanghai : BOOLEAN, IsPrague : BOOLEAN]

(***************************************************************************)
(* bytes.Count(data, []byte{0}): the number of zero bytes of data.         *)
(***************************************************************************)
CountZeroBytes(data) == Cardinality({i \in 1..Len(data) : data[i] = 0})

\* toWordSize rounding down instead of up.
toWordSize_Floor(size) == size \div 32

\* toWordSize returns the ceiled word size required for init code payment.
\* toWordSize without the saturation branch.
toWordSize_NoSaturation(size) == AddU64(size, 31) \div 32

toWordSize(size) ==
    IF size > MaxUint64 - 31
    THEN (MaxUint64 \div 32) + 1
    ELSE AddU64(size, 31) \div 32

\* IntrinsicGasPayload without the overflow check of the non-zero byte cost.
IntrinsicGasPayload_NoNonZeroCheck(gas, data, isContractCreation, rules) ==
    LET length == Len(data)
        z == CountZeroBytes(data)
        nz == length - z
        nonZeroGas == IF rules.IsPrague THEN TxDataNonZeroGasEIP2028 ELSE TxDataGas
        zeroGas == IF rules.IsPrague THEN TxDataZeroGas ELSE TxDataGas
        gas1 == AddU64(gas, MulU64(nz, nonZeroGas))
        gas2 == AddU64(gas1, MulU64(z, zeroGas))
        gasData == IF length > 0 THEN gas2 ELSE gas
        lenWords == toWordSize(length)
        gasWords == AddU64(gasData, MulU64(lenWords, InitCodeWordGas))
    IN  IF length > 0 /\ (MaxUint64 - gas1) \div zeroGas < z
        THEN GasRet(0, ErrGasUintOverflow)
        ELSE IF isContractCreation /\ rules.IsShanghai
        THEN IF (MaxUint64 - gasData) \div InitCodeWordGas < lenWords
             THEN GasRet(0, ErrGasUintOverflow)
             ELSE GasRet(gasWords, ErrNil)
        ELSE GasRet(gasData, ErrNil)

\* IntrinsicGasPayload pricing zero and non-zero bytes apart whatever the gate.
IntrinsicGasPayload_AlwaysSplit(gas, data, isContractCreation, rules) ==
    LET length == Len(data)
        z == CountZeroBytes(data)
        nz == length - z
        nonZeroGas == TxDataNonZeroGasEIP2028
        zeroGas == TxDataZeroGas
        gas1 == AddU64(gas, MulU64(nz, nonZeroGas))
        gas2 == AddU64(gas1, MulU64(z, zeroGas))
        gasData == IF length > 0 THEN gas2 ELSE gas
        lenWords == toWordSize(length)
        gasWords == AddU64(gasData, MulU64(lenWords, InitCodeWordGas))
    IN  IF length > 0 /\ (MaxUint64 - gas) \div nonZeroGas < nz
        THEN GasRet(0, ErrGasUintOverflow)
        ELSE IF length > 0 /\ (MaxUint64 - gas1) \div zeroGas < z
        THEN GasRet(0, ErrGasUintOverflow)
        ELSE IF isContractCreation /\ rules.IsShanghai
        THEN IF (MaxUint64 - gasData) \div InitCodeWordGas < lenWords
             THEN GasRet(0, ErrGasUintOverflow)
             ELSE GasRet(gasWords, ErrNil)
        ELSE GasRet(gasData, ErrNil)

\* IntrinsicGasPayload charging nothing for the zero bytes.
IntrinsicGasPayload_ZeroBytesFree(gas, data, isContractCreation, rules) ==
    LET length == Len(data)
        z == CountZeroBytes(data)
        nz == length - z
        nonZeroGas == IF rules.IsPrague THEN TxDataNonZeroGasEIP2028 ELSE TxDataGas
        gas1 == AddU64(gas, MulU64(nz, nonZeroGas))
        gasData == IF length > 0 THEN gas1 ELSE gas
        lenWords == toWordSize(length)
        gasWords == AddU64(gasData, MulU64(lenWords, InitCodeWordGas))
    IN  IF length > 0 /\ (MaxUint64 - gas) \div nonZeroGas < nz
        THEN GasRet(0, ErrGasUintOverflow)
        ELSE IF isContractCreation /\ rules.IsShanghai
        THEN IF (MaxUint64 - gasData) \div InitCodeWordGas < lenWords
             THEN GasRet(0, ErrGasUintOverflow)
             ELSE GasRet(gasWords, ErrNil)
        ELSE GasRet(gasData, ErrNil)

IntrinsicGasPayload(gas, data, isContractCreation, rules) ==
    LET length == Len(data)
        z == CountZeroBytes(data)
        nz == length - z
        nonZeroGas == IF rules.IsPrague THEN TxDataNonZeroGasEIP2028 ELSE TxDataGas
        zeroGas == IF rules.IsPrague THEN TxDataZeroGas ELSE TxDataGas
        gas1 == AddU64(gas, MulU64(nz, nonZeroGas))
        gas2 == AddU64(gas1, MulU64(z, zeroGas))
        gasData == IF length > 0 THEN gas2 ELSE gas
        lenWords == toWordSize(length)
        gasWords == AddU64(gasData, MulU64(lenWords, InitCodeWordGas))
    IN  IF length > 0 /\ (MaxUint64 - gas) \div nonZeroGas < nz
        THEN GasRet(0, ErrGasUintOverflow)
        ELSE IF length > 0 /\ (MaxUint64 - gas1) \div zeroGas < z
        THEN GasRet(0, ErrGasUintOverflow)
        ELSE IF isContractCreation /\ rules.IsShanghai
        THEN IF (MaxUint64 - gasData) \div InitCodeWordGas < lenWords
             THEN GasRet(0, ErrGasUintOverflow)
             ELSE GasRet(gasWords, ErrNil)
        ELSE GasRet(gasData, ErrNil)

\* IntrinsicGasPayloadLegacy charging the reduced EIP-2028 non-zero byte price.
IntrinsicGasPayloadLegacy_ReducedPrice(gas, data) ==
    LET length == Len(data)
        z == CountZeroBytes(data)
        nz == length - z
        gas1 == AddU64(gas, MulU64(nz, TxDataNonZeroGasEIP2028))
        gas2 == AddU64(gas1, MulU64(z, TxDataZeroGas))
    IN  IF length > 0
        THEN IF (MaxUint64 - gas) \div TxDataNonZeroGasEIP2028 < nz
             THEN GasRet(0, ErrGasUintOverflow)
             ELSE IF (MaxUint64 - gas1) \div TxDataZeroGas < z
             THEN GasRet(0, ErrGasUintOverflow)
             ELSE GasRet(gas2, ErrNil)
        ELSE GasRet(gas, ErrNil)

IntrinsicGasPayloadLegacy(gas, data) ==
    LET length == Len(data)
        z == CountZeroBytes(data)
        nz == length - z
        gas1 == AddU64(gas, MulU64(nz, TxDataNonZeroGasFrontier))
        gas2 == AddU64(gas1, MulU64(z, TxDataZeroGas))
    IN  IF length > 0
        THEN IF (MaxUint64 - gas) \div TxDataNonZeroGasFrontier < nz
             THEN GasRet(0, ErrGasUintOverflow)
             ELSE IF (MaxUint64 - gas1) \div TxDataZeroGas < z
             THEN GasRet(0, ErrGasUintOverflow)
             ELSE GasRet(gas2, ErrNil)
        ELSE GasRet(gas, ErrNil)

(***************************************************************************)
(* Slices.  Go tells a nil slice from an empty one, and IntrinsicGas tests *)
(* its two lists against nil.                                              *)
(***************************************************************************)
NilSlice == [isNil |-> TRUE, elems |-> <<>>]

Slice(elems) == [isNil |-> FALSE, elems |-> elems]

SliceLen(s) == Len(s.elems)

RECURSIVE SumStorageKeys(_)
SumStorageKeys(tuples) ==
    IF tuples = <<>>
    THEN 0
    ELSE Len(Head(tuples).StorageKeys) + SumStorageKeys(Tail(tuples))

\* AccessList.StorageKeys: the number of storage keys of all the tuples.
StorageKeys(accessList) == SumStorageKeys(accessList.elems)

\* IntrinsicGas charging every distinct address of the access list once.
IntrinsicGas_DistinctAddresses(data, accessList, authorizationList, contractCreation, r) ==
    LET gas == IF contractCreation THEN TxGasContractCreation ELSE TxGas
        payload == IF r.IsIstanbul
                   THEN IntrinsicGasPayload(gas, data, contractCreation, r)
                   ELSE IntrinsicGasPayloadLegacy(gas, data)
        gasAddr == AddU64(payload.gas,
                          MulU64(Cardinality({accessList.elems[i].Address : i \in 1..SliceLen(accessList)}), TxAccessListAddressGas))
        gasKeys == AddU64(gasAddr,
                          MulU64(StorageKeys(accessList), TxAccessListStorageKeyGas))
        gasAccess == IF ~accessList.isNil THEN gasKeys ELSE payload.gas
        gasAuth == AddU64(gasAccess,
                          MulU64(SliceLen(authorizationList), CallNewAccountGas))
    IN  IF payload.err # ErrNil
        THEN GasRet(0, payload.err)
        ELSE IF ~authorizationList.isNil
        THEN GasRet(gasAuth, ErrNil)
        ELSE GasRet(gasAccess, ErrNil)

\* IntrinsicGas charging every distinct authorization once.
IntrinsicGas_DistinctAuthorities(data, accessList, authorizationList, contractCreation, r) ==
    LET gas == IF contractCreation THEN TxGasContractCreation ELSE TxGas
        payload == IF r.IsIstanbul
                   THEN IntrinsicGasPayload(gas, data, contractCreation, r)
                   ELSE IntrinsicGasPayloadLegacy(gas, data)
        gasAddr == AddU64(payload.gas,
                          MulU64(SliceLen(accessList), TxAccessListAddressGas))
        gasKeys == AddU64(gasAddr,
                          MulU64(StorageKeys(accessList), TxAccessListStorageKeyGas))
        gasAccess == IF ~accessList.isNil THEN gasKeys ELSE payload.gas
        gasAuth == AddU64(gasAccess,
                          MulU64(Cardinality({authorizationList.elems[i] : i \in 1..SliceLen(authorizationList)}), CallNewAccountGas))
    IN  IF payload.err # ErrNil
        THEN GasRet(0, payload.err)
        ELSE IF ~authorizationList.isNil
        THEN GasRet(gasAuth, ErrNil)
        ELSE GasRet(gasAccess, ErrNil)

\* IntrinsicGas starting from TxGas for a contract creation too.
IntrinsicGas_CallBase(data, accessList, authorizationList, contractCreation, r) ==
    LET gas == TxGas
        payload == IF r.IsIstanbul
                   THEN IntrinsicGasPayload(gas, data, contractCreation, r)
                   ELSE IntrinsicGasPayloadLegacy(gas, data)
        gasAddr == AddU64(payload.gas,
                          MulU64(SliceLen(accessList), TxAccessListAddressGas))
        gasKeys == AddU64(gasAddr,
                          MulU64(StorageKeys(accessList), TxAccessListStorageKeyGas))
        gasAccess == IF ~accessList.isNil THEN gasKeys ELSE payload.gas
        gasAuth == AddU64(gasAccess,
                          MulU64(SliceLen(authorizationList), CallNewAccountGas))
    IN  IF payload.err # ErrNil
        THEN GasRet(0, payload.err)
        ELSE IF ~authorizationList.isNil
        THEN GasRet(gasAuth, ErrNil)
        ELSE GasRet(gasAccess, ErrNil)

\* IntrinsicGas computes the 'intrinsic gas' for a message with the given data.
IntrinsicGas(data, accessList, authorizationList, contractCreation, r) ==
    LET gas == IF contractCreation THEN TxGasContractCreation ELSE TxGas
        payload == IF r.IsIstanbul
                   THEN IntrinsicGasPayload(gas, data, contractCreation, r)
                   ELSE IntrinsicGasPayloadLegacy(gas, data)
        gasAddr == AddU64(payload.gas,
                          MulU64(SliceLen(accessList), TxAccessListAddressGas))
        gasKeys == AddU64(gasAddr,
                          MulU64(StorageKeys(accessList), TxAccessListStorageKeyGas))
        gasAccess == IF ~accessList.isNil THEN gasKeys ELSE payload.gas
        gasAuth == AddU64(gasAccess,
                          MulU64(SliceLen(authorizationList), CallNewAccountGas))
    IN  IF payload.err # ErrNil
        THEN GasRet(0, payload.err)
        ELSE IF ~authorizationList.isNil
        THEN GasRet(gasAuth, ErrNil)
        ELSE GasRet(gasAccess, ErrNil)

(***************************************************************************)
(* The arguments the calls are made with.                                  *)
(***************************************************************************)
SeqsUpTo(S, n) == UNION {[1..k -> S] : k \in 0..n}

ByteVals == {0, 1}

\* A payload of z zero bytes followed by nz non-zero bytes.
Blob(z, nz) == [i \in 1..(z + nz) |-> IF i <= z THEN 0 ELSE 1]

\* The shortest flat-priced payload a contract creation cannot pay for.
OverflowLen == ((MaxUint64 - TxGasContractCreation) \div TxDataGas) + 1

\* Payloads around the 32-byte word boundaries.
WordPayloads == {Blob(32, 0), Blob(1, 32), Blob(32, 32)}

\* Payloads a contract creation can just pay for, and just not.
LongPayloads == {Blob(0, OverflowLen - 1), Blob(0, OverflowLen), Blob(OverflowLen - 1, 1)}

ShortPayloads == SeqsUpTo(ByteVals, MaxDataLen) \cup WordPayloads

Addresses == {"a1", "a2"}

Hashes == {"k1"}

AccessTuples == [Address : Addresses, StorageKeys : SeqsUpTo(Hashes, MaxStorageKeys)]

AccessLists == {NilSlice} \cup {Slice(l) : l \in SeqsUpTo(AccessTuples, MaxAccessListLen)}

SetCodeAuthorizations == [Address : {"a1"}]

AuthorizationLists ==
    {NilSlice} \cup {Slice(l) : l \in SeqsUpTo(SetCodeAuthorizations, MaxAuthLen)}

\* The widest gap to MaxUint64 a payload of MaxDataLen bytes can fill.
GasHeadroom == (MaxDataLen * TxDataGas) + (2 * InitCodeWordGas) + 1

GasInputs == {0, TxGas, TxGasContractCreation} \cup {MaxUint64 - d : d \in 0..GasHeadroom}

\* Every list with a short payload, and the nil and the one-element lists with
\* a long one.
IntrinsicGasCalls ==
    [fn : {"IntrinsicGas"}, data : ShortPayloads, accessList : AccessLists,
     authorizationList : AuthorizationLists, contractCreation : BOOLEAN, r : Rules]
    \cup
    [fn : {"IntrinsicGas"}, data : LongPayloads,
     accessList : {NilSlice, Slice(<<[Address |-> "a1", StorageKeys |-> <<"k1">>]>>)},
     authorizationList : {NilSlice, Slice(<<[Address |-> "a1"]>>)},
     contractCreation : BOOLEAN, r : Rules]

IntrinsicGasPayloadCalls ==
    [fn : {"IntrinsicGasPayload"}, gas : GasInputs, data : ShortPayloads,
     isContractCreation : BOOLEAN, rules : Rules]

IntrinsicGasPayloadLegacyCalls ==
    [fn : {"IntrinsicGasPayloadLegacy"}, gas : GasInputs, data : ShortPayloads]

(***************************************************************************)
(* StateDB: the account of every address (GetAccount), nil for none.       *)
(***************************************************************************)
NilAccount == [goType |-> "nil", codeHash |-> "none"]

EmptyStateDB == [a \in Addresses |-> NilAccount]

(***************************************************************************)
(* The intrinsic gas engine: one call of one of its functions.             *)
(***************************************************************************)
InitGas ==
    /\ call \in IntrinsicGasCalls \cup IntrinsicGasPayloadCalls
                 \cup IntrinsicGasPayloadLegacyCalls
    /\ ret = NoRet
    /\ stateDB = EmptyStateDB

CallIntrinsicGas ==
    /\ call.fn = "IntrinsicGas"
    /\ ret = NoRet
    /\ ret' = IntrinsicGas(call.data, call.accessList, call.authorizationList,
                           call.contractCreation, call.r)
    /\ UNCHANGED <<call, stateDB>>

CallIntrinsicGasPayload ==
    /\ call.fn = "IntrinsicGasPayload"
    /\ ret = NoRet
    /\ ret' = IntrinsicGasPayload(call.gas, call.data, call.isContractCreation,
                                  call.rules)
    /\ UNCHANGED <<call, stateDB>>

CallIntrinsicGasPayloadLegacy ==
    /\ call.fn = "IntrinsicGasPayloadLegacy"
    /\ ret = NoRet
    /\ ret' = IntrinsicGasPayloadLegacy(call.gas, call.data)
    /\ UNCHANGED <<call, stateDB>>

NextGas ==
    \/ CallIntrinsicGas
    \/ CallIntrinsicGasPayload
    \/ CallIntrinsicGasPayloadLegacy

SpecGas == InitGas /\ [][NextGas]_vars

(***************************************************************************)
(* Properties of the intrinsic gas engine.                                 *)
(*                                                                         *)
(* The expected values are computed in unbounded integer arithmetic and    *)
(* count the payload bytes, the words, the tuples and the keys on their    *)
(* own, not with the operators of the engine.                              *)
(***************************************************************************)
Done == ret # NoRet

IsCallOf(fn) == call.fn = fn /\ Done

ZeroBytes(data) == Len(SelectSeq(data, LAMBDA b : b = 0))

NonZeroBytes(data) == Len(SelectSeq(data, LAMBDA b : b # 0))

\* ceil(n / 32): the least w with 32 * w >= n.
CeilWords(n) ==
    CHOOSE w \in 0..((n \div 32) + 1) : 32 * w >= n /\ (w = 0 \/ 32 * (w - 1) < n)

\* Every (tuple, key) position of an access list, duplicates included.
KeyPositions(accessList) ==
    UNION {{<<i, j>> : j \in 1..Len(accessList.elems[i].StorageKeys)} :
           i \in 1..Len(accessList.elems)}

ExactAccessCost(accessList) ==
    (Len(accessList.elems) * 2400) + (Cardinality(KeyPositions(accessList)) * 1900)

ExactAuthCost(authorizationList) == Len(authorizationList.elems) * 25000

ExactBase(contractCreation) == IF contractCreation THEN 53000 ELSE 21000

\* The word cost IntrinsicGas charges: on the Istanbul path, creating, under Shanghai.
ExactWordCost(data, contractCreation, r) ==
    IF r.IsIstanbul /\ r.IsShanghai /\ contractCreation
    THEN CeilWords(Len(data)) * 2
    ELSE 0

ExactByteCost(data, r) ==
    IF ~r.IsIstanbul
    THEN (NonZeroBytes(data) * 68) + (ZeroBytes(data) * 4)
    ELSE IF r.IsPrague
    THEN (NonZeroBytes(data) * 16) + (ZeroBytes(data) * 4)
    ELSE Len(data) * 100

\* The exact total of a call of IntrinsicGas.
ExactTotal ==
    ExactBase(call.contractCreation) + ExactByteCost(call.data, call.r)
    + ExactWordCost(call.data, call.contractCreation, call.r)
    + ExactAccessCost(call.accessList) + ExactAuthCost(call.authorizationList)

\* C1: in IntrinsicGas every additive and multiplicative step is
\* overflow-checked: when the exact total of base, payload, word, access-list
\* and authorization-list cost exceeds MaxUint64 the call fails with
\* ErrGasUintOverflow, and a value it returns is never wrapped.
Claim_C1_EveryStepChecked ==
    IsCallOf("IntrinsicGas") =>
        IF ExactTotal > MaxUint64
        THEN ret = GasRet(0, ErrGasUintOverflow)
        ELSE ret = GasRet(ExactTotal, ErrNil)

\* The exact sum IntrinsicGasPayload is asked for.
ExactPayloadSum ==
    LET pnz == IF call.rules.IsPrague THEN 16 ELSE 100
        pz == IF call.rules.IsPrague THEN 4 ELSE 100
    IN  call.gas + (NonZeroBytes(call.data) * pnz) + (ZeroBytes(call.data) * pz)
        + (IF call.isContractCreation /\ call.rules.IsShanghai
           THEN CeilWords(Len(call.data)) * 2
           ELSE 0)

\* C2: IntrinsicGasPayload returns (0, ErrGasUintOverflow) exactly when the
\* unbounded sum gas + nz*nonZeroPrice + z*zeroPrice (+ words*InitCodeWordGas
\* when creating under Shanghai) exceeds MaxUint64, and that exact sum with no
\* error otherwise.
Thm_C2_PayloadOverflowExact ==
    IsCallOf("IntrinsicGasPayload") =>
        IF ExactPayloadSum > MaxUint64
        THEN ret = GasRet(0, ErrGasUintOverflow)
        ELSE ret = GasRet(ExactPayloadSum, ErrNil)

\* The non-zero byte cost alone exceeds the headroom MaxUint64 - gas, and the
\* call failed.
Wit_C2_NonZeroCostAloneOverflows ==
    /\ IsCallOf("IntrinsicGasPayload")
    /\ NonZeroBytes(call.data) * (IF call.rules.IsPrague THEN 16 ELSE 100)
           > MaxUint64 - call.gas
    /\ call.gas < MaxUint64
    /\ ret = GasRet(0, ErrGasUintOverflow)

\* The outcome of IntrinsicGas when its payload stage, started from the base
\* cost, has the exact cost payloadExact: an overflow of the payload stage fails,
\* and the list costs are added to it in uint64 arithmetic.
GasOutcome(payloadExact) ==
    IF payloadExact > MaxUint64
    THEN ret = GasRet(0, ErrGasUintOverflow)
    ELSE ret = GasRet((payloadExact + ExactAccessCost(call.accessList)
                       + ExactAuthCost(call.authorizationList)) % UintMod, ErrNil)

\* C4: with the Istanbul gate active IntrinsicGas charges every payload byte
\* the flat price TxDataGas when the Prague gate is inactive, and TxDataZeroGas
\* per zero byte and TxDataNonZeroGasEIP2028 per non-zero byte when it is
\* active; the rule-set gates alone choose the price.
Thm_C4_ModernPayloadPricing ==
    (IsCallOf("IntrinsicGas") /\ call.r.IsIstanbul) =>
        LET bytes == IF call.r.IsPrague
                     THEN (ZeroBytes(call.data) * 4) + (NonZeroBytes(call.data) * 16)
                     ELSE Len(call.data) * 100
        IN  GasOutcome(ExactBase(call.contractCreation) + bytes
                       + ExactWordCost(call.data, call.contractCreation, call.r))

\* A payload of zero and non-zero bytes was charged the flat price for each.
Wit_C4_FlatPriceForMixedPayload ==
    /\ IsCallOf("IntrinsicGas")
    /\ call.r.IsIstanbul /\ ~call.r.IsPrague
    /\ ZeroBytes(call.data) > 0 /\ NonZeroBytes(call.data) > 0
    /\ ~call.contractCreation
    /\ call.accessList.isNil /\ call.authorizationList.isNil
    /\ ret = GasRet(21000 + (100 * Len(call.data)), ErrNil)

\* The same call with one gate of the rule set changed.
WithoutShanghai(r) == [r EXCEPT !.IsShanghai = FALSE]

\* C5 as stated: creating a contract with the Shanghai gate active, the
\* result of IntrinsicGas includes ceil(len(payload)/32) * InitCodeWordGas on top
\* of the base and payload-byte cost.
Claim_C5_WordCostUnderShanghai ==
    (/\ IsCallOf("IntrinsicGas")
     /\ call.contractCreation /\ call.r.IsShanghai
     /\ ret.err = ErrNil) =>
        ret.gas = AddU64(IntrinsicGas(call.data, call.accessList,
                                      call.authorizationList, call.contractCreation,
                                      WithoutShanghai(call.r)).gas,
                         CeilWords(Len(call.data)) * 2)

\* C5, amended: the result of IntrinsicGas includes ceil(len(payload)/32) *
\* InitCodeWordGas on top of the base and payload-byte cost exactly when it
\* creates a contract with both the Istanbul and the Shanghai gate active; when
\* contractCreation is false, or one of the two gates is inactive, no word cost
\* is added.
Thm_C5_WordCostUnderIstanbulAndShanghai ==
    (IsCallOf("IntrinsicGas") /\ ret.err = ErrNil) =>
        LET without == IntrinsicGas(call.data, call.accessList,
                                    call.authorizationList, call.contractCreation,
                                    WithoutShanghai(call.r))
        IN  /\ without.err = ErrNil
            /\ ret.gas =
                 AddU64(without.gas,
                        IF call.contractCreation /\ call.r.IsShanghai
                           /\ call.r.IsIstanbul
                        THEN CeilWords(Len(call.data)) * 2
                        ELSE 0)

\* A contract creation under Istanbul and Shanghai paid for the two words of a
\* payload of more than 32 and no more than 64 bytes.
Wit_C5_TwoWordsCharged ==
    /\ IsCallOf("IntrinsicGas")
    /\ call.contractCreation /\ call.r.IsShanghai /\ call.r.IsIstanbul
    /\ Len(call.data) > 32 /\ Len(call.data) < 64
    /\ call.accessList.isNil /\ call.authorizationList.isNil
    /\ ret.err = ErrNil
    /\ ret.gas = 53000 + ExactByteCost(call.data, call.r) + 4

Thm_C7_AccessListSurcharge ==
    (IsCallOf("IntrinsicGas") /\ ret.err = ErrNil) =>
        LET without == IntrinsicGas(call.data, NilSlice, call.authorizationList,
                                    call.contractCreation, call.r)
        IN  /\ without.err = ErrNil
            /\ ret.gas = AddU64(without.gas, ExactAccessCost(call.accessList))
            /\ (ExactTotal <= MaxUint64 =>
                    ret.gas = without.gas + ExactAccessCost(call.accessList))
            /\ (call.accessList.isNil => ret = without)

\* An access list naming the same address and the same key twice was charged
\* for two addresses and two keys.
Wit_C7_DuplicatesChargedTwice ==
    /\ IsCallOf("IntrinsicGas")
    /\ Len(call.accessList.elems) = 2
    /\ call.accessList.elems[1] = call.accessList.elems[2]
    /\ Len(call.accessList.elems[1].StorageKeys) = 1
    /\ call.authorizationList.isNil
    /\ call.data = <<>>
    /\ ~call.contractCreation
    /\ ret = GasRet(21000 + (2 * 2400) + (2 * 1900), ErrNil)

\* C8: IntrinsicGas adds, in uint64 arithmetic, exactly (number of
\* authorizations) * CallNewAccountGas to what the same call costs with a nil
\* authorization list; duplicates count, and a nil authorization list adds
\* nothing.
Thm_C8_AuthorizationListSurcharge ==
    (IsCallOf("IntrinsicGas") /\ ret.err = ErrNil) =>
        LET without == IntrinsicGas(call.data, call.accessList, NilSlice,
                                    call.contractCreation, call.r)
        IN  /\ without.err = ErrNil
            /\ ret.gas = AddU64(without.gas, ExactAuthCost(call.authorizationList))
            /\ (ExactTotal <= MaxUint64 =>
                    ret.gas = without.gas + ExactAuthCost(call.authorizationList))
            /\ (call.authorizationList.isNil => ret = without)

\* An authorization list holding the same authorization twice was charged twice.
Wit_C8_DuplicateAuthorizationsCharged ==
    /\ IsCallOf("IntrinsicGas")
    /\ Len(call.authorizationList.elems) = 2
    /\ call.authorizationList.elems[1] = call.authorizationList.elems[2]
    /\ call.accessList.isNil
    /\ call.data = <<>>
    /\ ~call.contractCreation
    /\ ret = GasRet(21000 + (2 * 25000), ErrNil)

\* What the payload and the lists cost on top of a base of zero.
CostAboveBase ==
    LET payload == IF call.r.IsIstanbul
                   THEN IntrinsicGasPayload(0, call.data, call.contractCreation, call.r)
                   ELSE IntrinsicGasPayloadLegacy(0, call.data)
    IN  payload.gas + ExactAccessCost(call.accessList)
        + ExactAuthCost(call.authorizationList)

\* C9: IntrinsicGas starts from TxGasContractCreation when contractCreation
\* is true and from TxGas otherwise, whatever the rule set, the payload and the
\* lists are; with an empty payload and nil lists the result is that base.
Thm_C9_BaseCost ==
    IsCallOf("IntrinsicGas") =>
        /\ (ret.err = ErrNil =>
                ret.gas = AddU64(IF call.contractCreation THEN 53000 ELSE 21000,
                                 CostAboveBase))
        /\ (call.data = <<>> /\ call.accessList.isNil /\ call.authorizationList.isNil
                => ret = GasRet(IF call.contractCreation THEN 53000 ELSE 21000, ErrNil))

\* A contract creation with an empty payload under Shanghai cost the creation base.
Wit_C9_CreationBaseUnderShanghai ==
    /\ IsCallOf("IntrinsicGas")
    /\ call.contractCreation /\ call.r.IsIstanbul /\ call.r.IsShanghai
    /\ call.data = <<>>
    /\ call.accessList.isNil /\ call.authorizationList.isNil
    /\ ret = GasRet(53000, ErrNil)

(***************************************************************************)
(* Fee split engine.                                                       *)
(***************************************************************************)
Big100 == 100

FeeRet(feePayer, feeSender) == [feePayer |-> feePayer, feeSender |-> feeSender]

\* CalcFeeWithRatio dividing before it multiplies.
CalcFeeWithRatio_DivideFirst(feeRatio, fee) ==
    LET feePayer == (fee \div Big100) * feeRatio
        feeSender == fee - feePayer
    IN  FeeRet(feePayer, feeSender)

\* CalcFeeWithRatio with a ratio above 100 taken for 100.
CalcFeeWithRatio_Clamped(feeRatio, fee) ==
    LET ratio == IF feeRatio > 100 THEN 100 ELSE feeRatio
        feePayer == (fee * ratio) \div Big100
        feeSender == fee - feePayer
    IN  FeeRet(feePayer, feeSender)

\* CalcFeeWithRatio returns feePayer's fee and sender's fee based on feeRatio.
CalcFeeWithRatio(feeRatio, fee) ==
    LET feePayer == (fee * feeRatio) \div Big100
        feeSender == fee - feePayer
    IN  FeeRet(feePayer, feeSender)

\* FeeRatio is a uint8.
FeeRatios == 0..255

Fees == (0..MaxFee) \cup {999999, 1000000, 8421504}

CalcFeeWithRatioCalls == [fn : {"CalcFeeWithRatio"}, feeRatio : FeeRatios, fee : Fees]

InitFee ==
    /\ call \in CalcFeeWithRatioCalls
    /\ ret = NoRet
    /\ stateDB = EmptyStateDB

CallCalcFeeWithRatio ==
    /\ call.fn = "CalcFeeWithRatio"
    /\ ret = NoRet
    /\ ret' = CalcFeeWithRatio(call.feeRatio, call.fee)
    /\ UNCHANGED <<call, stateDB>>

NextFee == CallCalcFeeWithRatio

SpecFee == InitFee /\ [][NextFee]_vars

\* C3: for every ratio in [1,99] and every non-negative fee the fee payer's
\* share of CalcFeeWithRatio is floor(fee * ratio / 100), the greatest integer p
\* with 100 * p <= fee * ratio; the sender's share is the fee minus the payer's
\* share, and the two shares sum to the fee.
Thm_C3_FeeSplitExact ==
    (IsCallOf("CalcFeeWithRatio") /\ call.feeRatio \in 1..99 /\ call.fee >= 0) =>
        /\ 100 * ret.feePayer <= call.fee * call.feeRatio
        /\ call.fee * call.feeRatio < 100 * (ret.feePayer + 1)
        /\ ret.feeSender = call.fee - ret.feePayer
        /\ ret.feePayer + ret.feeSender = call.fee

\* A fee that the ratio does not divide evenly was split, rounding the payer's
\* share down.
Wit_C3_UnevenSplitRoundsDown ==
    /\ IsCallOf("CalcFeeWithRatio")
    /\ call.feeRatio = 33 /\ call.fee = 101
    /\ ret = FeeRet(33, 68)

(***************************************************************************)
(* Transaction types (TxType, a uint16).                                   *)
(***************************************************************************)
TxTypeLegacyTransaction == 0

TxTypeValueTransfer == 8

TxTypeFeeDelegatedValueTransfer == 9

TxTypeFeeDelegatedValueTransferWithRatio == 10

TxTypeValueTransferMemo == 16

TxTypeFeeDelegatedValueTransferMemo == 17

TxTypeFeeDelegatedValueTransferMemoWithRatio == 18

TxTypeAccountCreation == 24

TxTypeAccountUpdate == 32

TxTypeFeeDelegatedAccountUpdate == 33

TxTypeFeeDelegatedAccountUpdateWithRatio == 34

TxTypeSmartContractDeploy == 40

TxTypeFeeDelegatedSmartContractDeploy == 41

TxTypeFeeDelegatedSmartContractDeployWithRatio == 42

TxTypeSmartContractExecution == 48

TxTypeFeeDelegatedSmartContractExecution == 49

TxTypeFeeDelegatedSmartContractExecutionWithRatio == 50

TxTypeCancel == 56

TxTypeFeeDelegatedCancel == 57

TxTypeFeeDelegatedCancelWithRatio == 58

TxTypeBatch == 64

TxTypeChainDataAnchoring == 72

TxTypeFeeDelegatedChainDataAnchoring == 73

TxTypeFeeDelegatedChainDataAnchoringWithRatio == 74

TxTypeKaiaLast == 80

TxTypeEthereumAccessList == 30721

TxTypeEthereumDynamicFee == 30722

TxTypeEthereumSetCode == 30724

TxTypeEthereumLast == 30725

(***************************************************************************)
(* Accounts (account.Account, an interface): what GetAccount returns and   *)
(* validate7702 reads of it.  goType is the dynamic type of the value.     *)
(***************************************************************************)
LegacyAccountType == "LegacyAccountType"

ExternallyOwnedAccountType == "ExternallyOwnedAccountType"

SmartContractAccountType == "SmartContractAccountType"

emptyCodeHash == "Keccak256(nil)"

ExternallyOwnedAccount(codeHash) ==
    [goType |-> "*account.ExternallyOwnedAccount", codeHash |-> codeHash]

SmartContractAccount == [goType |-> "*account.SmartContractAccount", codeHash |-> "code"]

\* An account that is neither of the two.
OtherAccount == [goType |-> "*account.LegacyAccount", codeHash |-> "none"]

Accounts ==
    {NilAccount, ExternallyOwnedAccount(emptyCodeHash), ExternallyOwnedAccount("code"),
     SmartContractAccount, OtherAccount}

\* Account.Type
Type(acc) ==
    CASE acc.goType = "*account.ExternallyOwnedAccount" -> ExternallyOwnedAccountType
      [] acc.goType = "*account.SmartContractAccount" -> SmartContractAccountType
      [] OTHER -> LegacyAccountType

\* StateDB.GetAccount
GetAccount(db, addr) == db[addr]

\* acc.(*account.ExternallyOwnedAccount): the ok of the type assertion.
IsExternallyOwnedAccount(acc) == acc.goType = "*account.ExternallyOwnedAccount"

ErrToMustBeEOAWithoutCode == "ErrToMustBeEOAWithoutCode"

ErrFromMustBeEOAWithoutCode == "ErrFromMustBeEOAWithoutCode"

ErrToMustBeEOAWithCodeOrSCA == "ErrToMustBeEOAWithCodeOrSCA"

ErrRet(err) == [err |-> err]

\* validate7702 with the code-hash comparison of group 1 left out.
validate7702_RecipientKindOnly(db, txType, from, to) ==
    IF txType \in {TxTypeValueTransfer,
                   TxTypeFeeDelegatedValueTransfer,
                   TxTypeFeeDelegatedValueTransferWithRatio,
                   TxTypeValueTransferMemo,
                   TxTypeFeeDelegatedValueTransferMemo,
                   TxTypeFeeDelegatedValueTransferMemoWithRatio}
    THEN LET acc == GetAccount(db, to)
         IN  IF acc = NilAccount
             THEN ErrRet(ErrNil)
             ELSE IF Type(acc) = SmartContractAccountType
             THEN ErrRet(ErrToMustBeEOAWithoutCode)
             ELSE IF ~IsExternallyOwnedAccount(acc)
             THEN ErrRet(ErrToMustBeEOAWithoutCode)
             ELSE ErrRet(ErrNil)
    ELSE IF txType \in {TxTypeAccountUpdate,
                        TxTypeFeeDelegatedAccountUpdate,
                        TxTypeFeeDelegatedAccountUpdateWithRatio}
    THEN LET acc == GetAccount(db, from)
         IN  IF acc = NilAccount
             THEN ErrRet(ErrNil)
             ELSE IF Type(acc) = SmartContractAccountType
             THEN ErrRet(ErrFromMustBeEOAWithoutCode)
             ELSE IF ~IsExternallyOwnedAccount(acc) \/ acc.codeHash # emptyCodeHash
             THEN ErrRet(ErrFromMustBeEOAWithoutCode)
             ELSE ErrRet(ErrNil)
    ELSE IF txType \in {TxTypeSmartContractExecution,
                        TxTypeFeeDelegatedSmartContractExecution,
                        TxTypeFeeDelegatedSmartContractExecutionWithRatio}
    THEN LET acc == GetAccount(db, to)
         IN  IF acc = NilAccount
             THEN ErrRet(ErrToMustBeEOAWithCodeOrSCA)
             ELSE IF Type(acc) = SmartContractAccountType
             THEN ErrRet(ErrNil)
             ELSE IF ~IsExternallyOwnedAccount(acc) \/ acc.codeHash # emptyCodeHash
             THEN ErrRet(ErrNil)
             ELSE ErrRet(ErrToMustBeEOAWithCodeOrSCA)
    ELSE ErrRet(ErrNil)

\* validate7702 with group 2 reading the recipient instead of the sender.
validate7702_UpdateChecksRecipient(db, txType, from, to) ==
    IF txType \in {TxTypeValueTransfer,
                   TxTypeFeeDelegatedValueTransfer,
                   TxTypeFeeDelegatedValueTransferWithRatio,
                   TxTypeValueTransferMemo,
                   TxTypeFeeDelegatedValueTransferMemo,
                   TxTypeFeeDelegatedValueTransferMemoWithRatio}
    THEN LET acc == GetAccount(db, to)
         IN  IF acc = NilAccount
             THEN ErrRet(ErrNil)
             ELSE IF Type(acc) = SmartContractAccountType
             THEN ErrRet(ErrToMustBeEOAWithoutCode)
             ELSE IF ~IsExternallyOwnedAccount(acc) \/ acc.codeHash # emptyCodeHash
             THEN ErrRet(ErrToMustBeEOAWithoutCode)
             ELSE ErrRet(ErrNil)
    ELSE IF txType \in {TxTypeAccountUpdate,
                        TxTypeFeeDelegatedAccountUpdate,
                        TxTypeFeeDelegatedAccountUpdateWithRatio}
    THEN LET acc == GetAccount(db, to)
         IN  IF acc = NilAccount
             THEN ErrRet(ErrNil)
             ELSE IF Type(acc) = SmartContractAccountType
             THEN ErrRet(ErrFromMustBeEOAWithoutCode)
             ELSE IF ~IsExternallyOwnedAccount(acc) \/ acc.codeHash # emptyCodeHash
             THEN ErrRet(ErrFromMustBeEOAWithoutCode)
             ELSE ErrRet(ErrNil)
    ELSE IF txType \in {TxTypeSmartContractExecution,
                        TxTypeFeeDelegatedSmartContractExecution,
                        TxTypeFeeDelegatedSmartContractExecutionWithRatio}
    THEN LET acc == GetAccount(db, to)
         IN  IF acc = NilAccount
             THEN ErrRet(ErrToMustBeEOAWithCodeOrSCA)
             ELSE IF Type(acc) = SmartContractAccountType
             THEN ErrRet(ErrNil)
             ELSE IF ~IsExternallyOwnedAccount(acc) \/ acc.codeHash # emptyCodeHash
             THEN ErrRet(ErrNil)
             ELSE ErrRet(ErrToMustBeEOAWithCodeOrSCA)
    ELSE ErrRet(ErrNil)

\* validate7702 with the cancel types added to group 2.
validate7702_CancelChecksSender(db, txType, from, to) ==
    IF txType \in {TxTypeValueTransfer,
                   TxTypeFeeDelegatedValueTransfer,
                   TxTypeFeeDelegatedValueTransferWithRatio,
                   TxTypeValueTransferMemo,
                   TxTypeFeeDelegatedValueTransferMemo,
                   TxTypeFeeDelegatedValueTransferMemoWithRatio}
    THEN LET acc == GetAccount(db, to)
         IN  IF acc = NilAccount
             THEN ErrRet(ErrNil)
             ELSE IF Type(acc) = SmartContractAccountType
             THEN ErrRet(ErrToMustBeEOAWithoutCode)
             ELSE IF ~IsExternallyOwnedAccount(acc) \/ acc.codeHash # emptyCodeHash
             THEN ErrRet(ErrToMustBeEOAWithoutCode)
             ELSE ErrRet(ErrNil)
    ELSE IF txType \in {TxTypeAccountUpdate,
                        TxTypeFeeDelegatedAccountUpdate,
                        TxTypeFeeDelegatedAccountUpdateWithRatio,
                        TxTypeCancel,
                        TxTypeFeeDelegatedCancel,
                        TxTypeFeeDelegatedCancelWithRatio}
    THEN LET acc == GetAccount(db, from)
         IN  IF acc = NilAccount
             THEN ErrRet(ErrNil)
             ELSE IF Type(acc) = SmartContractAccountType
             THEN ErrRet(ErrFromMustBeEOAWithoutCode)
             ELSE IF ~IsExternallyOwnedAccount(acc) \/ acc.codeHash # emptyCodeHash
             THEN ErrRet(ErrFromMustBeEOAWithoutCode)
             ELSE ErrRet(ErrNil)
    ELSE IF txType \in {TxTypeSmartContractExecution,
                        TxTypeFeeDelegatedSmartContractExecution,
                        TxTypeFeeDelegatedSmartContractExecutionWithRatio}
    THEN LET acc == GetAccount(db, to)
         IN  IF acc = NilAccount
             THEN ErrRet(ErrToMustBeEOAWithCodeOrSCA)
             ELSE IF Type(acc) = SmartContractAccountType
             THEN ErrRet(ErrNil)
             ELSE IF ~IsExternallyOwnedAccount(acc) \/ acc.codeHash # emptyCodeHash
             THEN ErrRet(ErrNil)
             ELSE ErrRet(ErrToMustBeEOAWithCodeOrSCA)
    ELSE ErrRet(ErrNil)

validate7702(db, txType, from, to) ==
    IF txType \in {TxTypeValueTransfer,
                   TxTypeFeeDelegatedValueTransfer,
                   TxTypeFeeDelegatedValueTransferWithRatio,
                   TxTypeValueTransferMemo,
                   TxTypeFeeDelegatedValueTransferMemo,
                   TxTypeFeeDelegatedValueTransferMemoWithRatio}
    THEN LET acc == GetAccount(db, to)
         IN  IF acc = NilAccount
             THEN ErrRet(ErrNil)
             ELSE IF Type(acc) = SmartContractAccountType
             THEN ErrRet(ErrToMustBeEOAWithoutCode)
             ELSE IF ~IsExternallyOwnedAccount(acc) \/ acc.codeHash # emptyCodeHash
             THEN ErrRet(ErrToMustBeEOAWithoutCode)
             ELSE ErrRet(ErrNil)
    ELSE IF txType \in {TxTypeAccountUpdate,
                        TxTypeFeeDelegatedAccountUpdate,
                        TxTypeFeeDelegatedAccountUpdateWithRatio}
    THEN LET acc == GetAccount(db, from)
         IN  IF acc = NilAccount
             THEN ErrRet(ErrNil)
             ELSE IF Type(acc) = SmartContractAccountType
             THEN ErrRet(ErrFromMustBeEOAWithoutCode)
             ELSE IF ~IsExternallyOwnedAccount(acc) \/ acc.codeHash # emptyCodeHash
             THEN ErrRet(ErrFromMustBeEOAWithoutCode)
             ELSE ErrRet(ErrNil)
    ELSE IF txType \in {TxTypeSmartContractExecution,
                        TxTypeFeeDelegatedSmartContractExecution,
                        TxTypeFeeDelegatedSmartContractExecutionWithRatio}
    THEN LET acc == GetAccount(db, to)
         IN  IF acc = NilAccount
             THEN ErrRet(ErrToMustBeEOAWithCodeOrSCA)
             ELSE IF Type(acc) = SmartContractAccountType
             THEN ErrRet(ErrNil)
             ELSE IF ~IsExternallyOwnedAccount(acc) \/ acc.codeHash # emptyCodeHash
             THEN ErrRet(ErrNil)
             ELSE ErrRet(ErrToMustBeEOAWithCodeOrSCA)
    ELSE ErrRet(ErrNil)

\* The tags validate7702 is called with: the Kaia block and the Ethereum envelope.
TxTypes == (TxTypeLegacyTransaction..TxTypeKaiaLast) \cup (30720..TxTypeEthereumLast)

StateDBs == [Addresses -> Accounts]

Validate7702Calls == [fn : {"validate7702"}, txType : TxTypes, from : Addresses,
                      to : Addresses]

InitValidate ==
    /\ call \in Validate7702Calls
    /\ ret = NoRet
    /\ stateDB \in StateDBs

CallValidate7702 ==
    /\ call.fn = "validate7702"
    /\ ret = NoRet
    /\ ret' = validate7702(stateDB, call.txType, call.from, call.to)
    /\ UNCHANGED <<call, stateDB>>

NextValidate == CallValidate7702

SpecValidate == InitValidate /\ [][NextValidate]_vars

ContractExecutionTypes ==
    {TxTypeSmartContractExecution, TxTypeFeeDelegatedSmartContractExecution,
     TxTypeFeeDelegatedSmartContractExecutionWithRatio}

\* C10: for the contract-execution types validate7702 passes iff the
\* recipient account exists and is a smart-contract account or an
\* externally-owned account whose code hash is not the empty-code hash; every
\* other recipient fails with ErrToMustBeEOAWithCodeOrSCA.
Claim_C10_ExecutionRecipientHasCode ==
    (IsCallOf("validate7702") /\ call.txType \in ContractExecutionTypes) =>
        LET acc == stateDB[call.to]
            hasCode ==
                \/ acc.goType = "*account.SmartContractAccount"
                \/ /\ acc.goType = "*account.ExternallyOwnedAccount"
                   /\ acc.codeHash # emptyCodeHash
        IN  ret.err = IF hasCode THEN ErrNil ELSE ErrToMustBeEOAWithCodeOrSCA

ValueTransferTypes ==
    {TxTypeValueTransfer, TxTypeFeeDelegatedValueTransfer,
     TxTypeFeeDelegatedValueTransferWithRatio, TxTypeValueTransferMemo,
     TxTypeFeeDelegatedValueTransferMemo, TxTypeFeeDelegatedValueTransferMemoWithRatio}

AccountUpdateTypes ==
    {TxTypeAccountUpdate, TxTypeFeeDelegatedAccountUpdate,
     TxTypeFeeDelegatedAccountUpdateWithRatio}

\* The account is an externally-owned account with the empty code hash.
IsCodelessEOA(acc) ==
    acc.goType = "*account.ExternallyOwnedAccount" /\ acc.codeHash = emptyCodeHash

\* C11: for the value-transfer types validate7702 passes if the recipient
\* account does not exist; if it exists it passes iff the account is an
\* externally-owned account whose code hash is the empty-code hash, and every
\* other recipient fails with ErrToMustBeEOAWithoutCode.
Thm_C11_TransferRecipientCodeless ==
    (IsCallOf("validate7702") /\ call.txType \in ValueTransferTypes) =>
        LET acc == stateDB[call.to]
        IN  ret.err = IF acc = NilAccount \/ IsCodelessEOA(acc)
                      THEN ErrNil
                      ELSE ErrToMustBeEOAWithoutCode

\* A transfer to an externally-owned account with code was rejected although
\* the sender is a codeless externally-owned account.
Wit_C11_RecipientWithCodeRejected ==
    /\ IsCallOf("validate7702")
    /\ call.txType = TxTypeFeeDelegatedValueTransferMemo
    /\ stateDB[call.to] = ExternallyOwnedAccount("code")
    /\ stateDB[call.from] = ExternallyOwnedAccount(emptyCodeHash)
    /\ ret.err = ErrToMustBeEOAWithoutCode

\* C12 as stated: for the account-update types validate7702 fails with
\* ErrFromMustBeEOAWithoutCode iff the sender account exists and is a
\* smart-contract account or an externally-owned account with a non-empty
\* code hash, whatever the recipient is.
Claim_C12_UpdateSenderContractOrCode ==
    (IsCallOf("validate7702") /\ call.txType \in AccountUpdateTypes) =>
        LET acc == stateDB[call.from]
            contractOrCode ==
                \/ acc.goType = "*account.SmartContractAccount"
                \/ /\ acc.goType = "*account.ExternallyOwnedAccount"
                   /\ acc.codeHash # emptyCodeHash
        IN  /\ (ret.err = ErrFromMustBeEOAWithoutCode) <=> contractOrCode
            /\ ret.err \in {ErrNil, ErrFromMustBeEOAWithoutCode}

\* C12 amended: for the account-update types validate7702 fails with
\* ErrFromMustBeEOAWithoutCode iff the sender account exists and is not an
\* externally-owned account with the empty code hash (a smart-contract
\* account, an externally-owned account with code, or an account of any other
\* kind); it passes otherwise, whatever the recipient is.
Thm_C12_UpdateSenderCodeless ==
    (IsCallOf("validate7702") /\ call.txType \in AccountUpdateTypes) =>
        LET acc == stateDB[call.from]
        IN  ret.err = IF acc = NilAccount \/ IsCodelessEOA(acc)
                      THEN ErrNil
                      ELSE ErrFromMustBeEOAWithoutCode

\* An account update passed with a codeless sender although the recipient is
\* a smart-contract account.
Wit_C12_RecipientIgnored ==
    /\ IsCallOf("validate7702")
    /\ call.txType = TxTypeFeeDelegatedAccountUpdate
    /\ stateDB[call.from] = ExternallyOwnedAccount(emptyCodeHash)
    /\ stateDB[call.to] = SmartContractAccount
    /\ ret.err = ErrNil

\* C13: for every type outside the value-transfer, account-update and
\* contract-execution families validate7702 returns nil whatever the sender
\* and recipient accounts are, and for every type the call leaves the account
\* state as it was.
Thm_C13_OtherTypesPassStateUntouched ==
    [][call.fn = "validate7702" =>
          /\ stateDB' = stateDB
          /\ call.txType \notin
                 (ValueTransferTypes \cup AccountUpdateTypes \cup ContractExecutionTypes)
             => ret' = ErrRet(ErrNil)]_vars

\* A cancel passed with a smart-contract sender and a recipient with code.
Wit_C13_CancelPassesAnyAccounts ==
    /\ IsCallOf("validate7702")
    /\ call.txType = TxTypeFeeDelegatedCancel
    /\ stateDB[call.from] = SmartContractAccount
    /\ stateDB[call.to] = ExternallyOwnedAccount("code")
    /\ ret.err = ErrNil

(***************************************************************************)
(* TxType methods.  A TxType is a uint16; TxTypeMask(t) converts it to a   *)
(* uint8.  BitAnd, BitOr and BitAndNot are Go's &, | and &^.               *)
(***************************************************************************)
TxTypeBits == 16

SubTxTypeBits == 3

EthereumTxTypeEnvelope == 120

TxFeeDelegationBitMask == 1

TxFeeDelegationWithRatioBitMask == 2

RECURSIVE BitAnd(_, _)
BitAnd(x, y) ==
    IF x = 0 \/ y = 0
    THEN 0
    ELSE (x % 2) * (y % 2) + 2 * BitAnd(x \div 2, y \div 2)

RECURSIVE BitOr(_, _)
BitOr(x, y) ==
    IF x = 0 /\ y = 0
    THEN 0
    ELSE (IF x % 2 = 1 \/ y % 2 = 1 THEN 1 ELSE 0) + 2 * BitOr(x \div 2, y \div 2)

BitAndNot(x, y) == x - BitAnd(x, y)

\* x << n in a TxType.
ShiftLeft(x, n) == (x * 2^n) % 2^TxTypeBits

\* TxTypeMask(t): the conversion of a uint16 to a uint8.
TxTypeMask(t) == t % 256

\* (1 << SubTxTypeBits) - 1
SubTxTypeMask == ShiftLeft(1, SubTxTypeBits) - 1

IsAccountCreation(t) == t = TxTypeAccountCreation

\* IsAccountUpdate comparing the tag itself.
IsAccountUpdate_BaseOnly(t) == t = TxTypeAccountUpdate

IsAccountUpdate(t) == BitAndNot(t, SubTxTypeMask) = TxTypeAccountUpdate

IsContractDeploy(t) == BitAndNot(t, SubTxTypeMask) = TxTypeSmartContractDeploy

IsCancelTransaction(t) == BitAndNot(t, SubTxTypeMask) = TxTypeCancel

IsLegacyTransaction(t) == t = TxTypeLegacyTransaction

\* IsEthTypedTransaction comparing the low byte.
IsEthTypedTransaction_LowByte(t) == BitAnd(t, 255) = EthereumTxTypeEnvelope

IsEthTypedTransaction(t) == BitAnd(t, 65280) = ShiftLeft(EthereumTxTypeEnvelope, 8)

IsEthereumTransaction(t) == IsLegacyTransaction(t) \/ IsEthTypedTransaction(t)

\* IsFeeDelegatedTransaction without the Ethereum exclusion.
IsFeeDelegatedTransaction_BitsOnly(t) ==
    BitAnd(TxTypeMask(t), BitOr(TxFeeDelegationBitMask, TxFeeDelegationWithRatioBitMask)) # 0

IsFeeDelegatedTransaction(t) ==
    /\ BitAnd(TxTypeMask(t),
              BitOr(TxFeeDelegationBitMask, TxFeeDelegationWithRatioBitMask)) # 0
    /\ ~IsEthereumTransaction(t)

IsFeeDelegatedWithRatioTransaction(t) ==
    /\ BitAnd(TxTypeMask(t), TxFeeDelegationWithRatioBitMask) # 0
    /\ ~IsEthereumTransaction(t)

IsChainDataAnchoring(t) == BitAndNot(t, SubTxTypeMask) = TxTypeChainDataAnchoring

(***************************************************************************)
(* NewTxInternalData.  A TxInternalData value is represented by its        *)
(* dynamic type, the type the constructor named in the switch returns.     *)
(***************************************************************************)
errUndefinedTxType == "errUndefinedTxType"

NilTxInternalData == "nil"

DataRet(data, err) == [data |-> data, err |-> err]

\* NewTxInternalData with the account-creation case of line 464 enabled.
NewTxInternalData_WithAccountCreation(t) ==
    CASE t = TxTypeLegacyTransaction ->
             DataRet("*TxInternalDataLegacy", ErrNil)
      [] t = TxTypeValueTransfer ->
             DataRet("*TxInternalDataValueTransfer", ErrNil)
      [] t = TxTypeFeeDelegatedValueTransfer ->
             DataRet("*TxInternalDataFeeDelegatedValueTransfer", ErrNil)
      [] t = TxTypeFeeDelegatedValueTransferWithRatio ->
             DataRet("*TxInternalDataFeeDelegatedValueTransferWithRatio", ErrNil)
      [] t = TxTypeValueTransferMemo ->
             DataRet("*TxInternalDataValueTransferMemo", ErrNil)
      [] t = TxTypeFeeDelegatedValueTransferMemo ->
             DataRet("*TxInternalDataFeeDelegatedValueTransferMemo", ErrNil)
      [] t = TxTypeFeeDelegatedValueTransferMemoWithRatio ->
             DataRet("*TxInternalDataFeeDelegatedValueTransferMemoWithRatio", ErrNil)
      [] t = TxTypeAccountCreation ->
             DataRet("*TxInternalDataAccountCreation", ErrNil)
      [] t = TxTypeAccountUpdate ->
             DataRet("*TxInternalDataAccountUpdate", ErrNil)
      [] t = TxTypeFeeDelegatedAccountUpdate ->
             DataRet("*TxInternalDataFeeDelegatedAccountUpdate", ErrNil)
      [] t = TxTypeFeeDelegatedAccountUpdateWithRatio ->
             DataRet("*TxInternalDataFeeDelegatedAccountUpdateWithRatio", ErrNil)
      [] t = TxTypeSmartContractDeploy ->
             DataRet("*TxInternalDataSmartContractDeploy", ErrNil)
      [] t = TxTypeFeeDelegatedSmartContractDeploy ->
             DataRet("*TxInternalDataFeeDelegatedSmartContractDeploy", ErrNil)
      [] t = TxTypeFeeDelegatedSmartContractDeployWithRatio ->
             DataRet("*TxInternalDataFeeDelegatedSmartContractDeployWithRatio", ErrNil)
      [] t = TxTypeSmartContractExecution ->
             DataRet("*TxInternalDataSmartContractExecution", ErrNil)
      [] t = TxTypeFeeDelegatedSmartContractExecution ->
             DataRet("*TxInternalDataFeeDelegatedSmartContractExecution", ErrNil)
      [] t = TxTypeFeeDelegatedSmartContractExecutionWithRatio ->
             DataRet("*TxInternalDataFeeDelegatedSmartContractExecutionWithRatio", ErrNil)
      [] t = TxTypeCancel ->
             DataRet("*TxInternalDataCancel", ErrNil)
      [] t = TxTypeFeeDelegatedCancel ->
             DataRet("*TxInternalDataFeeDelegatedCancel", ErrNil)
      [] t = TxTypeFeeDelegatedCancelWithRatio ->
             DataRet("*TxInternalDataFeeDelegatedCancelWithRatio", ErrNil)
      [] t = TxTypeChainDataAnchoring ->
             DataRet("*TxInternalDataChainDataAnchoring", ErrNil)
      [] t = TxTypeFeeDelegatedChainDataAnchoring ->
             DataRet("*TxInternalDataFeeDelegatedChainDataAnchoring", ErrNil)
      [] t = TxTypeFeeDelegatedChainDataAnchoringWithRatio ->
             DataRet("*TxInternalDataFeeDelegatedChainDataAnchoringWithRatio", ErrNil)
      [] t = TxTypeEthereumAccessList ->
             DataRet("*TxInternalDataEthereumAccessList", ErrNil)
      [] t = TxTypeEthereumDynamicFee ->
             DataRet("*TxInternalDataEthereumDynamicFee", ErrNil)
      [] t = TxTypeEthereumSetCode ->
             DataRet("*TxInternalDataEthereumSetCode", ErrNil)
      [] OTHER -> DataRet(NilTxInternalData, errUndefinedTxType)

NewTxInternalData(t) ==
    CASE t = TxTypeLegacyTransaction ->
             DataRet("*TxInternalDataLegacy", ErrNil)
      [] t = TxTypeValueTransfer ->
             DataRet("*TxInternalDataValueTransfer", ErrNil)
      [] t = TxTypeFeeDelegatedValueTransfer ->
             DataRet("*TxInternalDataFeeDelegatedValueTransfer", ErrNil)
      [] t = TxTypeFeeDelegatedValueTransferWithRatio ->
             DataRet("*TxInternalDataFeeDelegatedValueTransferWithRatio", ErrNil)
      [] t = TxTypeValueTransferMemo ->
             DataRet("*TxInternalDataValueTransferMemo", ErrNil)
      [] t = TxTypeFeeDelegatedValueTransferMemo ->
             DataRet("*TxInternalDataFeeDelegatedValueTransferMemo", ErrNil)
      [] t = TxTypeFeeDelegatedValueTransferMemoWithRatio ->
             DataRet("*TxInternalDataFeeDelegatedValueTransferMemoWithRatio", ErrNil)
      [] t = TxTypeAccountUpdate ->
             DataRet("*TxInternalDataAccountUpdate", ErrNil)
      [] t = TxTypeFeeDelegatedAccountUpdate ->
             DataRet("*TxInternalDataFeeDelegatedAccountUpdate", ErrNil)
      [] t = TxTypeFeeDelegatedAccountUpdateWithRatio ->
             DataRet("*TxInternalDataFeeDelegatedAccountUpdateWithRatio", ErrNil)
      [] t = TxTypeSmartContractDeploy ->
             DataRet("*TxInternalDataSmartContractDeploy", ErrNil)
      [] t = TxTypeFeeDelegatedSmartContractDeploy ->
             DataRet("*TxInternalDataFeeDelegatedSmartContractDeploy", ErrNil)
      [] t = TxTypeFeeDelegatedSmartContractDeployWithRatio ->
             DataRet("*TxInternalDataFeeDelegatedSmartContractDeployWithRatio", ErrNil)
      [] t = TxTypeSmartContractExecution ->
             DataRet("*TxInternalDataSmartContractExecution", ErrNil)
      [] t = TxTypeFeeDelegatedSmartContractExecution ->
             DataRet("*TxInternalDataFeeDelegatedSmartContractExecution", ErrNil)
      [] t = TxTypeFeeDelegatedSmartContractExecutionWithRatio ->
             DataRet("*TxInternalDataFeeDelegatedSmartContractExecutionWithRatio", ErrNil)
      [] t = TxTypeCancel ->
             DataRet("*TxInternalDataCancel", ErrNil)
      [] t = TxTypeFeeDelegatedCancel ->
             DataRet("*TxInternalDataFeeDelegatedCancel", ErrNil)
      [] t = TxTypeFeeDelegatedCancelWithRatio ->
             DataRet("*TxInternalDataFeeDelegatedCancelWithRatio", ErrNil)
      [] t = TxTypeChainDataAnchoring ->
             DataRet("*TxInternalDataChainDataAnchoring", ErrNil)
      [] t = TxTypeFeeDelegatedChainDataAnchoring ->
             DataRet("*TxInternalDataFeeDelegatedChainDataAnchoring", ErrNil)
      [] t = TxTypeFeeDelegatedChainDataAnchoringWithRatio ->
             DataRet("*TxInternalDataFeeDelegatedChainDataAnchoringWithRatio", ErrNil)
      [] t = TxTypeEthereumAccessList ->
             DataRet("*TxInternalDataEthereumAccessList", ErrNil)
      [] t = TxTypeEthereumDynamicFee ->
             DataRet("*TxInternalDataEthereumDynamicFee", ErrNil)
      [] t = TxTypeEthereumSetCode ->
             DataRet("*TxInternalDataEthereumSetCode", ErrNil)
      [] OTHER -> DataRet(NilTxInternalData, errUndefinedTxType)

\* The values maps handed to NewTxInternalDataWithMap: one that satisfies the
\* schema of the variant and one that does not.
ValuesMaps == {"complete", "missingKey"}

ErrValuesMap == "field-specific error"

\* The constructor of one variant from a values map: the variant when the map
\* satisfies its schema, a field-specific error otherwise.
newWithMap(variant, values) ==
    IF values = "complete"
    THEN DataRet(variant, ErrNil)
    ELSE DataRet(NilTxInternalData, ErrValuesMap)

\* NewTxInternalDataWithMap with the account-creation case of line 523 enabled.
NewTxInternalDataWithMap_WithAccountCreation(t, values) ==
    CASE t = TxTypeLegacyTransaction ->
             newWithMap("*TxInternalDataLegacy", values)
      [] t = TxTypeValueTransfer ->
             newWithMap("*TxInternalDataValueTransfer", values)
      [] t = TxTypeFeeDelegatedValueTransfer ->
             newWithMap("*TxInternalDataFeeDelegatedValueTransfer", values)
      [] t = TxTypeFeeDelegatedValueTransferWithRatio ->
             newWithMap("*TxInternalDataFeeDelegatedValueTransferWithRatio", values)
      [] t = TxTypeValueTransferMemo ->
             newWithMap("*TxInternalDataValueTransferMemo", values)
      [] t = TxTypeFeeDelegatedValueTransferMemo ->
             newWithMap("*TxInternalDataFeeDelegatedValueTransferMemo", values)
      [] t = TxTypeFeeDelegatedValueTransferMemoWithRatio ->
             newWithMap("*TxInternalDataFeeDelegatedValueTransferMemoWithRatio", values)
      [] t = TxTypeAccountCreation ->
             newWithMap("*TxInternalDataAccountCreation", values)
      [] t = TxTypeAccountUpdate ->
             newWithMap("*TxInternalDataAccountUpdate", values)
      [] t = TxTypeFeeDelegatedAccountUpdate ->
             newWithMap("*TxInternalDataFeeDelegatedAccountUpdate", values)
      [] t = TxTypeFeeDelegatedAccountUpdateWithRatio ->
             newWithMap("*TxInternalDataFeeDelegatedAccountUpdateWithRatio", values)
      [] t = TxTypeSmartContractDeploy ->
             newWithMap("*TxInternalDataSmartContractDeploy", values)
      [] t = TxTypeFeeDelegatedSmartContractDeploy ->
             newWithMap("*TxInternalDataFeeDelegatedSmartContractDeploy", values)
      [] t = TxTypeFeeDelegatedSmartContractDeployWithRatio ->
             newWithMap("*TxInternalDataFeeDelegatedSmartContractDeployWithRatio", values)
      [] t = TxTypeSmartContractExecution ->
             newWithMap("*TxInternalDataSmartContractExecution", values)
      [] t = TxTypeFeeDelegatedSmartContractExecution ->
             newWithMap("*TxInternalDataFeeDelegatedSmartContractExecution", values)
      [] t = TxTypeFeeDelegatedSmartContractExecutionWithRatio ->
             newWithMap("*TxInternalDataFeeDelegatedSmartContractExecutionWithRatio", values)
      [] t = TxTypeCancel ->
             newWithMap("*TxInternalDataCancel", values)
      [] t = TxTypeFeeDelegatedCancel ->
             newWithMap("*TxInternalDataFeeDelegatedCancel", values)
      [] t = TxTypeFeeDelegatedCancelWithRatio ->
             newWithMap("*TxInternalDataFeeDelegatedCancelWithRatio", values)
      [] t = TxTypeChainDataAnchoring ->
             newWithMap("*TxInternalDataChainDataAnchoring", values)
      [] t = TxTypeFeeDelegatedChainDataAnchoring ->
             newWithMap("*TxInternalDataFeeDelegatedChainDataAnchoring", values)
      [] t = TxTypeFeeDelegatedChainDataAnchoringWithRatio ->
             newWithMap("*TxInternalDataFeeDelegatedChainDataAnchoringWithRatio", values)
      [] t = TxTypeEthereumAccessList ->
             newWithMap("*TxInternalDataEthereumAccessList", values)
      [] t = TxTypeEthereumDynamicFee ->
             newWithMap("*TxInternalDataEthereumDynamicFee", values)
      [] t = TxTypeEthereumSetCode ->
             newWithMap("*TxInternalDataEthereumSetCode", values)
      [] OTHER -> DataRet(NilTxInternalData, errUndefinedTxType)

NewTxInternalDataWithMap(t, values) ==
    CASE t = TxTypeLegacyTransaction ->
             newWithMap("*TxInternalDataLegacy", values)
      [] t = TxTypeValueTransfer ->
             newWithMap("*TxInternalDataValueTransfer", values)
      [] t = TxTypeFeeDelegatedValueTransfer ->
             newWithMap("*TxInternalDataFeeDelegatedValueTransfer", values)
      [] t = TxTypeFeeDelegatedValueTransferWithRatio ->
             newWithMap("*TxInternalDataFeeDelegatedValueTransferWithRatio", values)
      [] t = TxTypeValueTransferMemo ->
             newWithMap("*TxInternalDataValueTransferMemo", values)
      [] t = TxTypeFeeDelegatedValueTransferMemo ->
             newWithMap("*TxInternalDataFeeDelegatedValueTransferMemo", values)
      [] t = TxTypeFeeDelegatedValueTransferMemoWithRatio ->
             newWithMap("*TxInternalDataFeeDelegatedValueTransferMemoWithRatio", values)
      [] t = TxTypeAccountUpdate ->
             newWithMap("*TxInternalDataAccountUpdate", values)
      [] t = TxTypeFeeDelegatedAccountUpdate ->
             newWithMap("*TxInternalDataFeeDelegatedAccountUpdate", values)
      [] t = TxTypeFeeDelegatedAccountUpdateWithRatio ->
             newWithMap("*TxInternalDataFeeDelegatedAccountUpdateWithRatio", values)
      [] t = TxTypeSmartContractDeploy ->
             newWithMap("*TxInternalDataSmartContractDeploy", values)
      [] t = TxTypeFeeDelegatedSmartContractDeploy ->
             newWithMap("*TxInternalDataFeeDelegatedSmartContractDeploy", values)
      [] t = TxTypeFeeDelegatedSmartContractDeployWithRatio ->
             newWithMap("*TxInternalDataFeeDelegatedSmartContractDeployWithRatio", values)
      [] t = TxTypeSmartContractExecution ->
             newWithMap("*TxInternalDataSmartContractExecution", values)
      [] t = TxTypeFeeDelegatedSmartContractExecution ->
             newWithMap("*TxInternalDataFeeDelegatedSmartContractExecution", values)
      [] t = TxTypeFeeDelegatedSmartContractExecutionWithRatio ->
             newWithMap("*TxInternalDataFeeDelegatedSmartContractExecutionWithRatio", values)
      [] t = TxTypeCancel ->
             newWithMap("*TxInternalDataCancel", values)
      [] t = TxTypeFeeDelegatedCancel ->
             newWithMap("*TxInternalDataFeeDelegatedCancel", values)
      [] t = TxTypeFeeDelegatedCancelWithRatio ->
             newWithMap("*TxInternalDataFeeDelegatedCancelWithRatio", values)
      [] t = TxTypeChainDataAnchoring ->
             newWithMap("*TxInternalDataChainDataAnchoring", values)
      [] t = TxTypeFeeDelegatedChainDataAnchoring ->
             newWithMap("*TxInternalDataFeeDelegatedChainDataAnchoring", values)
      [] t = TxTypeFeeDelegatedChainDataAnchoringWithRatio ->
             newWithMap("*TxInternalDataFeeDelegatedChainDataAnchoringWithRatio", values)
      [] t = TxTypeEthereumAccessList ->
             newWithMap("*TxInternalDataEthereumAccessList", values)
      [] t = TxTypeEthereumDynamicFee ->
             newWithMap("*TxInternalDataEthereumDynamicFee", values)
      [] t = TxTypeEthereumSetCode ->
             newWithMap("*TxInternalDataEthereumSetCode", values)
      [] OTHER -> DataRet(NilTxInternalData, errUndefinedTxType)

\* TxInternalData.Type of each variant.
TxInternalDataType ==
    ("*TxInternalDataLegacy" :> TxTypeLegacyTransaction) @@
    ("*TxInternalDataValueTransfer" :> TxTypeValueTransfer) @@
    ("*TxInternalDataFeeDelegatedValueTransfer" :> TxTypeFeeDelegatedValueTransfer) @@
    ("*TxInternalDataFeeDelegatedValueTransferWithRatio" :> TxTypeFeeDelegatedValueTransferWithRatio) @@
    ("*TxInternalDataValueTransferMemo" :> TxTypeValueTransferMemo) @@
    ("*TxInternalDataFeeDelegatedValueTransferMemo" :> TxTypeFeeDelegatedValueTransferMemo) @@
    ("*TxInternalDataFeeDelegatedValueTransferMemoWithRatio" :> TxTypeFeeDelegatedValueTransferMemoWithRatio) @@
    ("*TxInternalDataAccountUpdate" :> TxTypeAccountUpdate) @@
    ("*TxInternalDataFeeDelegatedAccountUpdate" :> TxTypeFeeDelegatedAccountUpdate) @@
    ("*TxInternalDataFeeDelegatedAccountUpdateWithRatio" :> TxTypeFeeDelegatedAccountUpdateWithRatio) @@
    ("*TxInternalDataSmartContractDeploy" :> TxTypeSmartContractDeploy) @@
    ("*TxInternalDataFeeDelegatedSmartContractDeploy" :> TxTypeFeeDelegatedSmartContractDeploy) @@
    ("*TxInternalDataFeeDelegatedSmartContractDeployWithRatio" :> TxTypeFeeDelegatedSmartContractDeployWithRatio) @@
    ("*TxInternalDataSmartContractExecution" :> TxTypeSmartContractExecution) @@
    ("*TxInternalDataFeeDelegatedSmartContractExecution" :> TxTypeFeeDelegatedSmartContractExecution) @@
    ("*TxInternalDataFeeDelegatedSmartContractExecutionWithRatio" :> TxTypeFeeDelegatedSmartContractExecutionWithRatio) @@
    ("*TxInternalDataCancel" :> TxTypeCancel) @@
    ("*TxInternalDataFeeDelegatedCancel" :> TxTypeFeeDelegatedCancel) @@
    ("*TxInternalDataFeeDelegatedCancelWithRatio" :> TxTypeFeeDelegatedCancelWithRatio) @@
    ("*TxInternalDataChainDataAnchoring" :> TxTypeChainDataAnchoring) @@
    ("*TxInternalDataFeeDelegatedChainDataAnchoring" :> TxTypeFeeDelegatedChainDataAnchoring) @@
    ("*TxInternalDataFeeDelegatedChainDataAnchoringWithRatio" :> TxTypeFeeDelegatedChainDataAnchoringWithRatio) @@
    ("*TxInternalDataEthereumAccessList" :> TxTypeEthereumAccessList) @@
    ("*TxInternalDataEthereumDynamicFee" :> TxTypeEthereumDynamicFee) @@
    ("*TxInternalDataEthereumSetCode" :> TxTypeEthereumSetCode)

(***************************************************************************)
(* The static gas table and its lookup.                                    *)
(***************************************************************************)
TxGasValueTransfer == 21000

TxGasAccountCreation == 21000

TxGasAccountUpdate == 21000

TxGasContractExecution == 21000

TxGasCancel == 21000

TxChainDataAnchoringGas == 21000

TxGasFeeDelegated == 10000

TxGasFeeDelegatedWithRatio == 15000

txTypeToGasMap ==
    (TxTypeLegacyTransaction :> TxGas) @@
    (TxTypeValueTransfer :> TxGasValueTransfer) @@
    (TxTypeFeeDelegatedValueTransfer :> TxGasValueTransfer + TxGasFeeDelegated) @@
    (TxTypeFeeDelegatedValueTransferWithRatio :> TxGasValueTransfer + TxGasFeeDelegatedWithRatio) @@
    (TxTypeValueTransferMemo :> TxGasValueTransfer) @@
    (TxTypeFeeDelegatedValueTransferMemo :> TxGasValueTransfer + TxGasFeeDelegated) @@
    (TxTypeFeeDelegatedValueTransferMemoWithRatio :> TxGasValueTransfer + TxGasFeeDelegatedWithRatio) @@
    (TxTypeAccountCreation :> TxGasAccountCreation) @@
    (TxTypeAccountUpdate :> TxGasAccountUpdate) @@
    (TxTypeFeeDelegatedAccountUpdate :> TxGasAccountUpdate + TxGasFeeDelegated) @@
    (TxTypeFeeDelegatedAccountUpdateWithRatio :> TxGasAccountUpdate + TxGasFeeDelegatedWithRatio) @@
    (TxTypeSmartContractDeploy :> TxGasContractCreation) @@
    (TxTypeFeeDelegatedSmartContractDeploy :> TxGasContractCreation + TxGasFeeDelegated) @@
    (TxTypeFeeDelegatedSmartContractDeployWithRatio :> TxGasContractCreation + TxGasFeeDelegatedWithRatio) @@
    (TxTypeSmartContractExecution :> TxGasContractExecution) @@
    (TxTypeFeeDelegatedSmartContractExecution :> TxGasContractExecution + TxGasFeeDelegated) @@
    (TxTypeFeeDelegatedSmartContractExecutionWithRatio :> TxGasContractExecution + TxGasFeeDelegatedWithRatio) @@
    (TxTypeCancel :> TxGasCancel) @@
    (TxTypeFeeDelegatedCancel :> TxGasCancel + TxGasFeeDelegated) @@
    (TxTypeFeeDelegatedCancelWithRatio :> TxGasCancel + TxGasFeeDelegatedWithRatio) @@
    (TxTypeChainDataAnchoring :> TxChainDataAnchoringGas) @@
    (TxTypeFeeDelegatedChainDataAnchoring :> TxChainDataAnchoringGas + TxGasFeeDelegated) @@
    (TxTypeFeeDelegatedChainDataAnchoringWithRatio :> TxChainDataAnchoringGas + TxGasFeeDelegatedWithRatio) @@
    (TxTypeEthereumAccessList :> TxGas) @@
    (TxTypeEthereumDynamicFee :> TxGas) @@
    (TxTypeEthereumSetCode :> TxGas)

ErrCannotFindTxGas == "cannot find txGas for txType"

\* GetTxGasForTxType reading the entry of the family's base type.
GetTxGasForTxType_FamilyEntry(txType) ==
    LET base == BitAndNot(txType, SubTxTypeMask)
    IN  IF txType \in DOMAIN txTypeToGasMap
        THEN GasRet(txTypeToGasMap[IF base \in DOMAIN txTypeToGasMap THEN base ELSE txType],
                    ErrNil)
        ELSE GasRet(0, ErrCannotFindTxGas)

GetTxGasForTxType(txType) ==
    IF txType \in DOMAIN txTypeToGasMap
    THEN GasRet(txTypeToGasMap[txType], ErrNil)
    ELSE GasRet(0, ErrCannotFindTxGas)

(***************************************************************************)
(* Calls on a TxType value: the value is any uint16, and one method, or    *)
(* one of the two functions taking a TxType, is applied to it.            *)
(***************************************************************************)
TxTypeValues == 0..(2^TxTypeBits - 1)

BoolRet(fn, val) == [fn |-> fn, val |-> val]

InitTxType ==
    /\ call \in [fn : {"TxType"}, t : TxTypeValues]
    /\ ret = NoRet
    /\ stateDB = EmptyStateDB

CallIsAccountCreation ==
    /\ call.fn = "TxType"
    /\ ret = NoRet
    /\ ret' = BoolRet("IsAccountCreation", IsAccountCreation(call.t))
    /\ UNCHANGED <<call, stateDB>>

CallIsAccountUpdate ==
    /\ call.fn = "TxType"
    /\ ret = NoRet
    /\ ret' = BoolRet("IsAccountUpdate", IsAccountUpdate(call.t))
    /\ UNCHANGED <<call, stateDB>>

CallIsContractDeploy ==
    /\ call.fn = "TxType"
    /\ ret = NoRet
    /\ ret' = BoolRet("IsContractDeploy", IsContractDeploy(call.t))
    /\ UNCHANGED <<call, stateDB>>

CallIsCancelTransaction ==
    /\ call.fn = "TxType"
    /\ ret = NoRet
    /\ ret' = BoolRet("IsCancelTransaction", IsCancelTransaction(call.t))
    /\ UNCHANGED <<call, stateDB>>

CallIsLegacyTransaction ==
    /\ call.fn = "TxType"
    /\ ret = NoRet
    /\ ret' = BoolRet("IsLegacyTransaction", IsLegacyTransaction(call.t))
    /\ UNCHANGED <<call, stateDB>>

CallIsFeeDelegatedTransaction ==
    /\ call.fn = "TxType"
    /\ ret = NoRet
    /\ ret' = BoolRet("IsFeeDelegatedTransaction", IsFeeDelegatedTransaction(call.t))
    /\ UNCHANGED <<call, stateDB>>

CallIsFeeDelegatedWithRatioTransaction ==
    /\ call.fn = "TxType"
    /\ ret = NoRet
    /\ ret' = BoolRet("IsFeeDelegatedWithRatioTransaction", IsFeeDelegatedWithRatioTransaction(call.t))
    /\ UNCHANGED <<call, stateDB>>

CallIsEthTypedTransaction ==
    /\ call.fn = "TxType"
    /\ ret = NoRet
    /\ ret' = BoolRet("IsEthTypedTransaction", IsEthTypedTransaction(call.t))
    /\ UNCHANGED <<call, stateDB>>

CallIsEthereumTransaction ==
    /\ call.fn = "TxType"
    /\ ret = NoRet
    /\ ret' = BoolRet("IsEthereumTransaction", IsEthereumTransaction(call.t))
    /\ UNCHANGED <<call, stateDB>>

CallIsChainDataAnchoring ==
    /\ call.fn = "TxType"
    /\ ret = NoRet
    /\ ret' = BoolRet("IsChainDataAnchoring", IsChainDataAnchoring(call.t))
    /\ UNCHANGED <<call, stateDB>>

CallNewTxInternalData ==
    /\ call.fn = "TxType"
    /\ ret = NoRet
    /\ ret' = [fn |-> "NewTxInternalData", val |-> NewTxInternalData(call.t)]
    /\ UNCHANGED <<call, stateDB>>

CallNewTxInternalDataWithMap ==
    /\ call.fn = "TxType"
    /\ ret = NoRet
    /\ \E values \in ValuesMaps :
           ret' = [fn |-> "NewTxInternalDataWithMap", values |-> values,
                   val |-> NewTxInternalDataWithMap(call.t, values)]
    /\ UNCHANGED <<call, stateDB>>

CallGetTxGasForTxType ==
    /\ call.fn = "TxType"
    /\ ret = NoRet
    /\ ret' = [fn |-> "GetTxGasForTxType", val |-> GetTxGasForTxType(call.t)]
    /\ UNCHANGED <<call, stateDB>>

NextTxType ==
    \/ CallIsAccountCreation
    \/ CallIsAccountUpdate
    \/ CallIsContractDeploy
    \/ CallIsCancelTransaction
    \/ CallIsLegacyTransaction
    \/ CallIsFeeDelegatedTransaction
    \/ CallIsFeeDelegatedWithRatioTransaction
    \/ CallIsEthTypedTransaction
    \/ CallIsEthereumTransaction
    \/ CallIsChainDataAnchoring
    \/ CallNewTxInternalData
    \/ CallNewTxInternalDataWithMap
    \/ CallGetTxGasForTxType

SpecTxType == InitTxType /\ [][NextTxType]_vars

\* The method or function fn has returned for the tag call.t.
Returned(fn) == call.fn = "TxType" /\ ret # NoRet /\ ret.fn = fn

\* The tags the switch of NewTxInternalData lists, by number.
SupportedTags ==
    {0, 8, 9, 10, 16, 17, 18, 32, 33, 34, 40, 41, 42, 48, 49, 50, 56, 57, 58,
     72, 73, 74, 30721, 30722, 30724}

\* Bit n of the tag t is set.
BitSet(t, n) == (t \div 2^n) % 2 = 1

\* The tag is the legacy tag or has the high byte 0x78.
InEthereumSpace(t) == t = 0 \/ t \div 256 = 120

\* C14 as stated: for every 16-bit tag t, IsFeeDelegatedTransaction(t) is
\* true iff exactly one of bit 0 and bit 1 is set and t is not in the Ethereum
\* numeric space.
Claim_C14_ExactlyOneDelegationBit ==
    Returned("IsFeeDelegatedTransaction") =>
        (ret.val <=> /\ BitSet(call.t, 0) # BitSet(call.t, 1)
                     /\ ~InEthereumSpace(call.t))

\* C14 amended: for every 16-bit tag t, IsFeeDelegatedTransaction(t) is true
\* iff at least one of bit 0 and bit 1 is set and t is neither the legacy tag
\* nor a tag with the high byte 0x78; for those tags it is false whatever the
\* low bits are.
Thm_C14_SomeDelegationBit ==
    Returned("IsFeeDelegatedTransaction") =>
        /\ ret.val <=> /\ BitSet(call.t, 0) \/ BitSet(call.t, 1)
                       /\ ~InEthereumSpace(call.t)
        /\ InEthereumSpace(call.t) => ~ret.val

\* The dynamic-fee tag 0x7802 has bit 1 set and is not fee-delegated.
Wit_C14_EthereumTagNotDelegated ==
    /\ Returned("IsFeeDelegatedTransaction")
    /\ call.t = 30722
    /\ ret.val = FALSE

\* C15: for every tag NewTxInternalData accepts exactly one of legacy,
\* Ethereum-typed and Kaia-typed (neither) holds: legacy and Ethereum-typed
\* never hold together, the legacy tag alone is legacy, the tags 0x7801,
\* 0x7802 and 0x7804 alone are Ethereum-typed, and every Kaia family tag
\* (0x08..0x4A) is neither.
Thm_C15_ClassificationTrichotomy ==
    /\ Returned("IsLegacyTransaction") =>
           /\ call.t \in SupportedTags =>
                  /\ ret.val <=> call.t = 0
                  /\ ret.val => ~IsEthTypedTransaction(call.t)
           /\ call.t \in 8..74 => ~ret.val
    /\ Returned("IsEthTypedTransaction") =>
           /\ call.t \in SupportedTags =>
                  /\ ret.val <=> call.t \in {30721, 30722, 30724}
                  /\ ret.val => ~IsLegacyTransaction(call.t)
           /\ call.t \in 8..74 => ~ret.val

\* The set-code tag 0x7804 is Ethereum-typed.
Wit_C15_SetCodeIsEthereumTyped ==
    /\ Returned("IsEthTypedTransaction")
    /\ call.t = 30724
    /\ ret.val = TRUE

\* C16: among the tags NewTxInternalData accepts, IsAccountUpdate,
\* IsContractDeploy, IsCancelTransaction and IsChainDataAnchoring are each
\* true for exactly the three sub-variants of their own family; and for any
\* 16-bit tag at most one of the four holds.
Thm_C16_FamilyPredicates ==
    /\ (Returned("IsAccountUpdate") /\ call.t \in SupportedTags) =>
           (ret.val <=> call.t \in {32, 33, 34})
    /\ (Returned("IsContractDeploy") /\ call.t \in SupportedTags) =>
           (ret.val <=> call.t \in {40, 41, 42})
    /\ (Returned("IsCancelTransaction") /\ call.t \in SupportedTags) =>
           (ret.val <=> call.t \in {56, 57, 58})
    /\ (Returned("IsChainDataAnchoring") /\ call.t \in SupportedTags) =>
           (ret.val <=> call.t \in {72, 73, 74})
    /\ (Returned("IsAccountUpdate") /\ ret.val) =>
           ~(\/ IsContractDeploy(call.t)
             \/ IsCancelTransaction(call.t)
             \/ IsChainDataAnchoring(call.t))
    /\ (Returned("IsContractDeploy") /\ ret.val) =>
           ~(IsCancelTransaction(call.t) \/ IsChainDataAnchoring(call.t))
    /\ (Returned("IsCancelTransaction") /\ ret.val) => ~IsChainDataAnchoring(call.t)

\* The with-ratio variant of account update is an account update.
Wit_C16_WithRatioVariantInFamily ==
    /\ Returned("IsAccountUpdate")
    /\ call.t = 34
    /\ ret.val = TRUE

\* C17: NewTxInternalData(t) returns a variant whose Type() is t and no error
\* for each supported tag, and (nil, errUndefinedTxType) for every other
\* 16-bit tag.
Thm_C17_CreateOrUndefined ==
    Returned("NewTxInternalData") =>
        IF call.t \in SupportedTags
        THEN /\ ret.val.err = ErrNil
             /\ ret.val.data # NilTxInternalData
             /\ TxInternalDataType[ret.val.data] = call.t
        ELSE ret.val = DataRet(NilTxInternalData, errUndefinedTxType)

\* The enumerated but disabled account-creation tag is refused.
Wit_C17_AccountCreationRefused ==
    /\ Returned("NewTxInternalData")
    /\ call.t = 24
    /\ ret.val = DataRet(NilTxInternalData, errUndefinedTxType)

\* C18: for every family with fee-delegated variants the gas of the
\* fee-delegated variant is the gas of the base variant plus TxGasFeeDelegated,
\* the gas of the with-ratio variant is the gas of the base variant plus
\* TxGasFeeDelegatedWithRatio, and the two surcharges differ.
Thm_C18_DelegationSurcharge ==
    (/\ Returned("GetTxGasForTxType")
     /\ call.t - (call.t % 8) \in {8, 16, 32, 40, 48, 56, 72}
     /\ call.t % 8 \in {1, 2}) =>
        LET base == GetTxGasForTxType(call.t - (call.t % 8))
        IN  /\ base.err = ErrNil
            /\ ret.val.err = ErrNil
            /\ ret.val.gas = base.gas + (IF call.t % 8 = 1
                                         THEN TxGasFeeDelegated
                                         ELSE TxGasFeeDelegatedWithRatio)
            /\ TxGasFeeDelegated # TxGasFeeDelegatedWithRatio

\* The with-ratio contract deploy costs the creation gas plus the with-ratio
\* surcharge.
Wit_C18_DeployWithRatio ==
    /\ Returned("GetTxGasForTxType")
    /\ call.t = 42
    /\ ret.val = GasRet(68000, ErrNil)

\* The constants the TxType enumeration names, by number.
EnumeratedTags == SupportedTags \cup {24, 64, 80, 30725}

\* C19: GetTxGasForTxType returns (0, error) for a tag with no entry and
\* (gas, nil) otherwise, and it never fails for a constant the enumeration
\* names or a tag NewTxInternalData accepts.
Claim_C19_EveryEnumeratedTypeHasGas ==
    Returned("GetTxGasForTxType") =>
        /\ ret.val.err # ErrNil => ret.val.gas = 0
        /\ call.t \in EnumeratedTags => ret.val.err = ErrNil

(***************************************************************************)
(* StateProcessor.Process.  A transaction of the block carries what        *)
(* ApplyTransaction returns for it (its error and the gas it uses), and    *)
(* the call carries what engine.Finalize returns.  The call record holds   *)
(* the arguments and the locals of the running call: i is the number of    *)
(* loop iterations completed.  Logs and internal traces are appended and   *)
(* returned exactly as the receipts are and are left out.                  *)
(***************************************************************************)
MaxTxs == 3

TxHashes == {"t1", "t2"}

ErrApplyTransaction == "ApplyTransaction: err"

ErrFinalize == "Finalize: err"

Transactions ==
    [hash : TxHashes, applyErr : {ErrNil, ErrApplyTransaction}, gasUsed : {TxGas}]

Blocks == SeqsUpTo(Transactions, MaxTxs)

\* The receipt ApplyTransaction returns for tx.
Receipt(tx) == [TxHash |-> tx.hash, GasUsed |-> tx.gasUsed]

\* append(s, x)
AppendSlice(s, x) == Slice(Append(s.elems, x))

ProcessRet(receipts, usedGas, err) ==
    [receipts |-> receipts, usedGas |-> usedGas, err |-> err]

ProcessCalls ==
    [fn : {"Process"}, block : Blocks, finalizeErr : {ErrNil, ErrFinalize},
     i : {0}, receipts : {NilSlice}, usedGas : {0}]

InitProcess ==
    /\ call \in ProcessCalls
    /\ ret = NoRet
    /\ stateDB = EmptyStateDB

\* The loop body with a failed transaction skipped instead of returned.
ProcessApplyTransaction_SkipFailed ==
    /\ call.fn = "Process"
    /\ ret = NoRet
    /\ call.i < Len(call.block)
    /\ LET tx == call.block[call.i + 1]
       IN  IF tx.applyErr # ErrNil
           THEN call' = [call EXCEPT !.i = @ + 1]
           ELSE call' = [call EXCEPT !.i = @ + 1,
                                     !.receipts = AppendSlice(@, Receipt(tx)),
                                     !.usedGas = AddU64(@, tx.gasUsed)]
    /\ UNCHANGED <<ret, stateDB>>

\* One iteration of the loop over block.Transactions().
ProcessApplyTransaction ==
    /\ call.fn = "Process"
    /\ ret = NoRet
    /\ call.i < Len(call.block)
    /\ LET tx == call.block[call.i + 1]
       IN  IF tx.applyErr # ErrNil
           THEN /\ ret' = ProcessRet(NilSlice, 0, tx.applyErr)
                /\ UNCHANGED call
           ELSE /\ call' = [call EXCEPT !.i = @ + 1,
                                        !.receipts = AppendSlice(@, Receipt(tx)),
                                        !.usedGas = AddU64(@, tx.gasUsed)]
                /\ UNCHANGED ret
    /\ UNCHANGED stateDB

\* After the loop: engine.Finalize and the return.
ProcessFinalize ==
    /\ call.fn = "Process"
    /\ ret = NoRet
    /\ call.i = Len(call.block)
    /\ ret' = IF call.finalizeErr # ErrNil
              THEN ProcessRet(NilSlice, 0, call.finalizeErr)
              ELSE ProcessRet(call.receipts, call.usedGas, ErrNil)
    /\ UNCHANGED <<call, stateDB>>

NextProcess ==
    \/ ProcessApplyTransaction
    \/ ProcessFinalize

SpecProcess == InitProcess /\ [][NextProcess]_vars

\* The receipts of the transactions of the block that apply, in block order.
ReceiptsOfApplied(block) ==
    LET ok == SelectSeq(block, LAMBDA tx : tx.applyErr = ErrNil)
    IN  [k \in 1..Len(ok) |-> [TxHash |-> ok[k].hash, GasUsed |-> ok[k].gasUsed]]

\* Some transaction of the block fails to apply.
SomeApplyFails(block) == \E k \in 1..Len(block) : block[k].applyErr # ErrNil

\* The position of the first transaction of the block that fails to apply.
FirstFailure(block) ==
    CHOOSE k \in 1..Len(block) :
        /\ block[k].applyErr # ErrNil
        /\ \A j \in 1..(k - 1) : block[j].applyErr = ErrNil

\* C20 as stated: a transaction that fails to apply is left out and the
\* others are still processed: when Finalize succeeds, Process returns no
\* error and the receipts of the transactions that apply.
Claim_C20_FailureSkipsOnlyThatTransaction ==
    (IsCallOf("Process") /\ call.finalizeErr = ErrNil) =>
        /\ ret.err = ErrNil
        /\ ret.receipts.elems = ReceiptsOfApplied(call.block)

\* C20 amended: when applying a transaction of the block fails, Process stops
\* at that transaction and returns its error with nil receipts and zero used
\* gas: the transactions after it are not applied and no receipt is returned,
\* not even for the transactions applied before it.  Only when every
\* transaction applies and Finalize succeeds does Process return the receipts,
\* one per transaction in block order.
Thm_C20_FirstFailureAbortsBlock ==
    IsCallOf("Process") =>
        IF SomeApplyFails(call.block)
        THEN /\ ret = ProcessRet(NilSlice, 0, ErrApplyTransaction)
             /\ call.i = FirstFailure(call.block) - 1
        ELSE IF call.finalizeErr # ErrNil
        THEN ret = ProcessRet(NilSlice, 0, ErrFinalize)
        ELSE /\ ret.err = ErrNil
             /\ ret.receipts.elems = ReceiptsOfApplied(call.block)
             /\ Len(ret.receipts.elems) = Len(call.block)
             /\ ret.usedGas = (21000 * Len(call.block)) % UintMod

\* The second of three transactions failed: Process returned its error and
\* no receipt, and the third transaction was never applied.
Wit_C20_SecondOfThreeFails ==
    /\ IsCallOf("Process")
    /\ Len(call.block) = 3
    /\ call.block[1].applyErr = ErrNil
    /\ call.block[2].applyErr # ErrNil
    /\ call.block[3].applyErr = ErrNil
    /\ call.i = 1
    /\ ret = ProcessRet(NilSlice, 0, ErrApplyTransaction)

(***************************************************************************)
(* Further properties of the intrinsic gas engine.                         *)
(***************************************************************************)
\* What IntrinsicGas returns for the payload A and the other arguments of the
\* call.
IntrinsicGasWith(A) ==
    IntrinsicGas(A, call.accessList, call.authorizationList, call.contractCreation,
                 call.r)

\* B has at least as many zero bytes and at least as many non-zero bytes as A.
Dominates(B, A) ==
    ZeroBytes(A) <= ZeroBytes(B) /\ NonZeroBytes(A) <= NonZeroBytes(B)

\* The exact price of what the payload B has more than the payload A.
ExactExtraCost(B, A) ==
    (ExactByteCost(B, call.r) - ExactByteCost(A, call.r))
    + (ExactWordCost(B, call.contractCreation, call.r)
       - ExactWordCost(A, call.contractCreation, call.r))

\* C21 as stated: with the rules, the creation flag and the two lists fixed,
\* a shorter payload never costs more than a longer one when both calls
\* succeed, whatever the bytes are.
Claim_C21_MonotoneInLength ==
    (IsCallOf("IntrinsicGas") /\ ret.err = ErrNil) =>
        \A A \in ShortPayloads :
            (Len(A) < Len(call.data) /\ IntrinsicGasWith(A).err = ErrNil) =>
                IntrinsicGasWith(A).gas <= ret.gas

\* C21 amended: with the rules, the creation flag and the two lists fixed, if
\* the payload B has at least as many zero bytes and at least as many
\* non-zero bytes as the payload A (or, on the flat-priced path, Istanbul
\* without Prague, B is merely longer than A) and both calls succeed, then
\* IntrinsicGas(B) is IntrinsicGas(A) plus the non-negative price of B's extra
\* bytes and words in uint64 arithmetic; so IntrinsicGas(A) <= IntrinsicGas(B)
\* whenever the exact total of B fits in a uint64.
Thm_C21_MonotoneInByteCounts ==
    (IsCallOf("IntrinsicGas") /\ ret.err = ErrNil) =>
        \A A \in ShortPayloads :
            (/\ \/ Dominates(call.data, A)
                \/ /\ call.r.IsIstanbul /\ ~call.r.IsPrague
                   /\ Len(A) < Len(call.data)
             /\ IntrinsicGasWith(A).err = ErrNil) =>
                /\ ExactExtraCost(call.data, A) >= 0
                /\ ret.gas = (IntrinsicGasWith(A).gas + ExactExtraCost(call.data, A))
                                 % UintMod
                /\ ExactTotal <= MaxUint64 => IntrinsicGasWith(A).gas <= ret.gas

\* Under Prague a creation with 32 zero and 32 non-zero bytes costs more than
\* the same creation with the 32 zero bytes alone.
Wit_C21_LongerPayloadCostsMore ==
    /\ IsCallOf("IntrinsicGas")
    /\ call.data = Blob(32, 32)
    /\ call.contractCreation
    /\ call.r.IsIstanbul /\ call.r.IsPrague /\ call.r.IsShanghai
    /\ call.accessList = NilSlice /\ call.authorizationList = NilSlice
    /\ ret = GasRet(53644, ErrNil)
    /\ IntrinsicGasWith(Blob(32, 0)) = GasRet(53130, ErrNil)

\* The call the scenario of C22 describes: 32 zero and 32 non-zero bytes,
\* Istanbul active, no contract creation, no access or authorization entries.
IsScenarioC22 ==
    /\ IsCallOf("IntrinsicGas")
    /\ ZeroBytes(call.data) = 32 /\ NonZeroBytes(call.data) = 32
    /\ call.r.IsIstanbul
    /\ ~call.contractCreation
    /\ Len(call.accessList.elems) = 0 /\ Len(call.authorizationList.elems) = 0

\* C22 as stated: in the scenario IntrinsicGas returns the base call cost plus
\* 32 times the flat per-byte price.
Claim_C22_ThirtyTwoFlatBytes ==
    IsScenarioC22 => ret = GasRet(21000 + (32 * 100), ErrNil)

\* C22 amended: in the scenario IntrinsicGas returns the base call cost plus
\* 64 times the flat per-byte price (21000 + 64 * 100 = 27400) when the Prague
\* gate is inactive, and the base call cost plus 32 * 16 for the non-zero
\* bytes plus 32 * 4 for the zero bytes (21640) when it is active.
Thm_C22_SixtyFourBytesCharged ==
    IsScenarioC22 =>
        ret = GasRet(IF call.r.IsPrague THEN 21640 ELSE 27400, ErrNil)

\* The scenario ran without Prague and cost 27400.
Wit_C22_ScenarioWithoutPrague ==
    /\ IsScenarioC22
    /\ ~call.r.IsPrague
    /\ call.accessList = NilSlice /\ call.authorizationList = NilSlice
    /\ ret = GasRet(27400, ErrNil)

(***************************************************************************)
(* The small functions called on their own: toWordSize with every uint64   *)
(* size, FeeRatio.IsValid with every uint8 ratio, equalRecipient with nil  *)
(* and non-nil address pointers.                                           *)
(***************************************************************************)
MaxFeeRatio == 100

\* FeeRatio.IsValid accepting MaxFeeRatio.
IsValid_UpToMax(f) == 1 <= f /\ f <= MaxFeeRatio

\* FeeRatio.IsValid
IsValid(f) == 1 <= f /\ f <= 99

\* A *common.Address: nil, or a pointer to the address addr.
NilRecipient == [isNil |-> TRUE, addr |-> "none"]

Recipient(addr) == [isNil |-> FALSE, addr |-> addr]

\* Address.Bytes
Bytes(a) == a.addr

\* equalRecipient taking nil for equal to every recipient.
equalRecipient_NilMatchesAny(a, b) ==
    IF a = NilRecipient \/ b = NilRecipient
    THEN TRUE
    ELSE Bytes(a) = Bytes(b)

equalRecipient(a, b) ==
    IF a = NilRecipient /\ b = NilRecipient
    THEN TRUE
    ELSE IF a # NilRecipient /\ b # NilRecipient /\ Bytes(a) = Bytes(b)
    THEN TRUE
    ELSE FALSE

ToWordSizeCalls == [fn : {"toWordSize"}, size : 0..MaxUint64]

IsValidCalls == [fn : {"IsValid"}, f : FeeRatios]

Recipients == {NilRecipient} \cup {Recipient(x) : x \in Addresses}

EqualRecipientCalls == [fn : {"equalRecipient"}, a : Recipients, b : Recipients]

ValRet(val) == [val |-> val]

InitUtil ==
    /\ call \in ToWordSizeCalls \cup IsValidCalls \cup EqualRecipientCalls
    /\ ret = NoRet
    /\ stateDB = EmptyStateDB

CallToWordSize ==
    /\ call.fn = "toWordSize"
    /\ ret = NoRet
    /\ ret' = ValRet(toWordSize(call.size))
    /\ UNCHANGED <<call, stateDB>>

CallIsValid ==
    /\ call.fn = "IsValid"
    /\ ret = NoRet
    /\ ret' = ValRet(IsValid(call.f))
    /\ UNCHANGED <<call, stateDB>>

CallEqualRecipient ==
    /\ call.fn = "equalRecipient"
    /\ ret = NoRet
    /\ ret' = ValRet(equalRecipient(call.a, call.b))
    /\ UNCHANGED <<call, stateDB>>

NextUtil ==
    \/ CallToWordSize
    \/ CallIsValid
    \/ CallEqualRecipient

SpecUtil == InitUtil /\ [][NextUtil]_vars

\* C23: toWordSize(n) is ceil(n / 32), the least w with 32 * w >= n, for
\* every n of the unsigned width; toWordSize(0) = 0, toWordSize(32) = 1,
\* toWordSize(33) = 2; for n > MaxUint64 - 31 it is MaxUint64 / 32 + 1; and
\* it does not decrease when n grows.
Thm_C23_WordSizeIsCeiling ==
    IsCallOf("toWordSize") =>
        /\ 32 * ret.val >= call.size
        /\ ret.val = 0 \/ 32 * (ret.val - 1) < call.size
        /\ call.size = 0 => ret.val = 0
        /\ call.size = 32 => ret.val = 1
        /\ call.size = 33 => ret.val = 2
        /\ call.size > MaxUint64 - 31 => ret.val = (MaxUint64 \div 32) + 1
        /\ call.size > 0 => toWordSize(call.size - 1) <= ret.val

\* The largest size was rounded up to the saturated word count, not wrapped
\* to zero.
Wit_C23_LargestSizeSaturates ==
    /\ IsCallOf("toWordSize")
    /\ call.size = MaxUint64
    /\ ret.val = (MaxUint64 \div 32) + 1
    /\ ret.val > toWordSize(MaxUint64 - 32)

\* C24: FeeRatio.IsValid(r) is true iff 1 <= r <= 99, for every 8-bit r; it
\* is false for 0, for 100 and for every value above 100.
Thm_C24_RatioValidRange ==
    IsCallOf("IsValid") =>
        /\ ret.val <=> call.f \in 1..99
        /\ call.f = 0 \/ call.f >= 100 => ~ret.val

\* The ratio 100, MaxFeeRatio, is not valid.
Wit_C24_HundredInvalid ==
    /\ IsCallOf("IsValid")
    /\ call.f = 100
    /\ ret.val = FALSE

\* C25: two nil recipients are equal; a nil and a present recipient are
\* unequal in either order; two present recipients are equal iff their
\* address bytes are equal; the relation is reflexive and symmetric.
Thm_C25_RecipientEquality ==
    IsCallOf("equalRecipient") =>
        /\ (call.a.isNil /\ call.b.isNil) => ret.val
        /\ (call.a.isNil # call.b.isNil) => ~ret.val
        /\ (~call.a.isNil /\ ~call.b.isNil) => (ret.val <=> call.a.addr = call.b.addr)
        /\ call.a = call.b => ret.val
        /\ ret.val = equalRecipient(call.b, call.a)

\* A present recipient compared with nil is unequal.
Wit_C25_PresentAgainstNil ==
    /\ IsCallOf("equalRecipient")
    /\ call.a = Recipient("a1")
    /\ call.b = NilRecipient
    /\ ret.val = FALSE

\* validate7702 passes for the type t with the accounts of the call.
PassesAs(t) == validate7702(stateDB, t, call.from, call.to).err = ErrNil

Claim_C28_RatioAboveHundredOvercharges ==
    IsCallOf("CalcFeeWithRatio") =>
        /\ (call.feeRatio \in 1..99 /\ call.fee >= 0) =>
               /\ 0 <= ret.feePayer /\ ret.feePayer <= call.fee
               /\ 0 <= ret.feeSender /\ ret.feeSender <= call.fee
        /\ (call.feeRatio > 100 /\ call.fee >= 0) =>
               /\ ret.feePayer > call.fee
               /\ ret.feeSender < 0

\* C28 amended: for a ratio in [1,99] and a non-negative fee both shares lie
\* between 0 and the fee; there is no range check, so for a ratio above 100
\* the call still returns, with a payer's share of at least the fee and a
\* sender's share of at most 0; the payer's share exceeds the fee and the
\* sender's share is negative exactly when fee * (ratio - 100) >= 100.  The
\* fee passed in is left as it was.
Thm_C28_SharesWithinFee ==
    [][call.fn = "CalcFeeWithRatio" =>
          /\ call' = call
          /\ (call.feeRatio \in 1..99 /\ call.fee >= 0) =>
                 /\ 0 <= ret'.feePayer /\ ret'.feePayer <= call.fee
                 /\ 0 <= ret'.feeSender /\ ret'.feeSender <= call.fee
          /\ (call.feeRatio > 100 /\ call.fee >= 0) =>
                 /\ ret'.feePayer >= call.fee
                 /\ ret'.feeSender <= 0
                 /\ ret'.feePayer > call.fee <=> call.fee * (call.feeRatio - 100) >= 100
                 /\ ret'.feeSender < 0 <=> call.fee * (call.feeRatio - 100) >= 100]_vars

\* With the ratio 150 and the fee 100 the payer is charged 150 and the sender
\* -50.
Wit_C28_RatioOneFiftyOvercharges ==
    /\ IsCallOf("CalcFeeWithRatio")
    /\ call.feeRatio = 150 /\ call.fee = 100
    /\ ret = FeeRet(150, -50)

\* C29: for every 16-bit tag NewTxInternalData returns errUndefinedTxType
\* iff NewTxInternalDataWithMap does, whatever the values map, and the only
\* tag with an entry in the gas table that both constructors reject is 0x18
\* (TxTypeAccountCreation).
Thm_C29_ConstructorsAcceptSameTags ==
    /\ Returned("NewTxInternalDataWithMap") =>
           /\ ret.val.err = errUndefinedTxType
                  <=> NewTxInternalData(call.t).err = errUndefinedTxType
           /\ ret.val.err = errUndefinedTxType <=> call.t \notin SupportedTags
           /\ (GetTxGasForTxType(call.t).err = ErrNil /\ ret.val.err = errUndefinedTxType)
                  <=> call.t = 24
    /\ Returned("NewTxInternalData") =>
           /\ \A values \in ValuesMaps :
                  ret.val.err = errUndefinedTxType
                      <=> NewTxInternalDataWithMap(call.t, values).err = errUndefinedTxType
           /\ (GetTxGasForTxType(call.t).err = ErrNil /\ ret.val.err = errUndefinedTxType)
                  <=> call.t = 24

\* The map constructor was called with the account-creation tag and a
\* complete values map and returned errUndefinedTxType, while the gas table
\* has an entry for the tag.
Wit_C29_AccountCreationRejectedWithMap ==
    /\ Returned("NewTxInternalDataWithMap")
    /\ call.t = TxTypeAccountCreation
    /\ ret.values = "complete"
    /\ ret.val = DataRet(NilTxInternalData, errUndefinedTxType)
    /\ GetTxGasForTxType(call.t).err = ErrNil

(***************************************************************************)
(* Istanbul core: handlePrepare.  The core c is the receiver: its state,   *)
(* the round state c.current (view, proposal digest, locked hash, the      *)
(* PREPARE and COMMIT message sets keyed by sender), the committee of the  *)
(* view with its required message count, and the messages it has           *)
(* broadcast.  In this part the call record holds the core and the         *)
(* arguments of the latest call of handlePrepare, and ret its result.  The *)
(* round state, the message sets, checkMessage, setState and sendCommit    *)
(* are outside the excerpt and are modelled by what their callers here     *)
(* rely on.                                                                *)
(***************************************************************************)
\* msg.Decode(&prepare): the subject encoded in msg.Msg, or an error for
\* bytes that do not encode a subject.
Decode(msg) ==
    IF msg.Msg.wellFormed
    THEN [val |-> [View |-> msg.Msg.View, Digest |-> msg.Msg.Digest], err |-> ErrNil]
    ELSE [val |-> [View |-> "", Digest |-> ""], err |-> "rlp: decode error"]

\* State values are ordered: AcceptRequest 0, Preprepared 1, Prepared 2,
\* Committed 3.
StatePrepared == 2

\* State.Cmp
Cmp(s, y) == IF s < y THEN -1 ELSE IF s > y THEN 1 ELSE 0

\* c.current.Subject()
Subject(c) == [View |-> c.current.view, Digest |-> c.current.proposal]

\* c.checkMessage(msgPrepare, view): the message is for the current view.
checkMessage(c, view) == IF view = c.current.view THEN ErrNil ELSE "errWrongView"

verifyPrepare(c, prepare, src) ==
    IF prepare # Subject(c) THEN "errInconsistentSubject" ELSE ErrNil

\* c.current.Prepares.Add(msg): the set keeps one message per sender.
acceptPrepare(c, msg, src) ==
    [c EXCEPT !.current.Prepares = @ \cup {src}]

\* c.current.GetPrepareOrCommitSize()
GetPrepareOrCommitSize(c) ==
    Cardinality(c.current.Prepares) + Cardinality(c.current.Commits)

\* c.current.IsHashLocked(): the locked hash is not the empty hash.
IsHashLocked(c) == c.current.lockedHash # ""

\* c.current.LockHash(): lock on the hash of the current proposal.
LockHash(c) == [c EXCEPT !.current.lockedHash = c.current.proposal]

setState(c, state) == [c EXCEPT !.state = state]

\* c.sendCommit(): broadcast a COMMIT for the current subject.
sendCommit(c) ==
    [c EXCEPT !.sent = Append(@, [Code |-> "msgCommit", Msg |-> Subject(c)])]

HandleRet(c, err) == [c |-> c, err |-> err]

\* handlePrepare changing to Prepared on any accepted message, whatever the
\* lock and the number of messages.
handlePrepare_NoQuorumCheck(c, msg, src) ==
    IF Decode(msg).err # ErrNil
    THEN HandleRet(c, "errInvalidMessage")
    ELSE LET prepare == Decode(msg).val
         IN  IF checkMessage(c, prepare.View) # ErrNil
             THEN HandleRet(c, checkMessage(c, prepare.View))
             ELSE IF verifyPrepare(c, prepare, src) # ErrNil
             THEN HandleRet(c, verifyPrepare(c, prepare, src))
             ELSE IF src \notin c.currentCommittee.committee
             THEN HandleRet(c, "errNotFromCommittee")
             ELSE LET c1 == acceptPrepare(c, msg, src)
                  IN  IF Cmp(c1.state, StatePrepared) < 0
                      THEN HandleRet(sendCommit(setState(LockHash(c1), StatePrepared)), ErrNil)
                      ELSE HandleRet(c1, ErrNil)

handlePrepare(c, msg, src) ==
    IF Decode(msg).err # ErrNil
    THEN HandleRet(c, "errInvalidMessage")
    ELSE LET prepare == Decode(msg).val
         IN  IF checkMessage(c, prepare.View) # ErrNil
             THEN HandleRet(c, checkMessage(c, prepare.View))
             ELSE IF verifyPrepare(c, prepare, src) # ErrNil
             THEN HandleRet(c, verifyPrepare(c, prepare, src))
             ELSE IF src \notin c.currentCommittee.committee
             THEN HandleRet(c, "errNotFromCommittee")
             ELSE LET c1 == acceptPrepare(c, msg, src)
                  IN  IF Cmp(c1.state, StatePrepared) < 0
                      THEN IF IsHashLocked(c1) /\ prepare.Digest = c1.current.lockedHash
                           THEN HandleRet(sendCommit(setState(c1, StatePrepared)), ErrNil)
                           ELSE IF GetPrepareOrCommitSize(c1) >= c1.currentCommittee.required
                           THEN HandleRet(sendCommit(setState(LockHash(c1), StatePrepared)), ErrNil)
                           ELSE HandleRet(c1, ErrNil)
                      ELSE HandleRet(c1, ErrNil)

\* The PREPARE messages received: the payload encodes a subject for view
\* "v1" or "v2" with digest "h1" or "h2", or is not well-formed.
PrepareMessages ==
    [Code : {"msgPrepare"},
     Msg : [wellFormed : BOOLEAN, View : {"v1", "v2"}, Digest : {"h1", "h2"}]]

\* The senders: three committee members and one node outside the committee.
Senders == {"a1", "a2", "a3", "x"}

\* The cores at the first PREPARE of view "v1" with proposal "h1": in any
\* state, unlocked or locked on "h1" or "h2", with any COMMIT messages of
\* committee members received, no PREPARE yet and nothing sent.
Cores ==
    [state : 0..3,
     current : [view : {"v1"}, proposal : {"h1"}, lockedHash : {"", "h1", "h2"},
                Prepares : {{}}, Commits : SUBSET {"a1", "a2"}],
     currentCommittee : [committee : {{"a1", "a2", "a3"}}, required : {2, 3}],
     sent : {<<>>}]

InitPrepare ==
    /\ call \in [fn : {"handlePrepare"}, c : Cores,
                 msg : {[Code |-> "none", Msg |-> [wellFormed |-> FALSE, View |-> "", Digest |-> ""]]},
                 src : {"none"}]
    /\ ret = NoRet
    /\ stateDB = EmptyStateDB

CallHandlePrepare ==
    /\ call.fn = "handlePrepare"
    /\ \E msg \in PrepareMessages, src \in Senders :
           LET r == handlePrepare(call.c, msg, src)
           IN  /\ call' = [call EXCEPT !.c = r.c, !.msg = msg, !.src = src]
               /\ ret' = [err |-> r.err]
    /\ UNCHANGED stateDB

NextPrepare == CallHandlePrepare

SpecPrepare == InitPrepare /\ [][NextPrepare]_vars

\* The message passes decoding, checkMessage, the subject comparison and the
\* committee check of the core c.
PassesChecks(c, msg, src) ==
    /\ msg.Msg.wellFormed
    /\ msg.Msg.View = c.current.view
    /\ msg.Msg.Digest = c.current.proposal
    /\ src \in c.currentCommittee.committee

====
